---- MODULE Spec2Model ----
(***************************************************************************)
(* Moderation and setup slash commands of the bot (cogs/moderation.py,     *)
(* cogs/setup.py), for one guild.  Every command handler is one action:    *)
(* it takes the interaction's inputs, runs the handler's code over an      *)
(* execution context (the calls issued so far, whether the interaction     *)
(* has an initial response, the exception in flight, the warning store)    *)
(* and leaves the finished interaction in `call`.  Every awaited call to   *)
(* the platform or to the store can fail; each failure is a choice of the  *)
(* environment.  The ban handler is suspended at view.wait(), so it is two *)
(* actions.  The Action Log is write-only for these handlers: its writes   *)
(* are calls of the trace.                                                 *)
(***************************************************************************)
EXTENDS Integers, Sequences, FiniteSets, TLC

VARIABLES
    db_warnings,   \* bot.db: the guild's warning records, newest first
    db_settings,   \* bot.db: the guild's server settings
    call           \* the interaction being handled and the calls it has made

vars == <<db_warnings, db_settings, call>>

(***************************************************************************)
(* The guild and the inputs.                                               *)
(***************************************************************************)
Moderators == {"u1", "u3"}
Members == {"u1", "u2"}
owner_id == "u1"
MaxRole == 2
Roles == 1..MaxRole
Channels == {"c1"}
NoChannel == "None"
MaxWarnings == 2
Durations == {60}

\* What the interaction carries besides the command's arguments:
\* interaction.guild, and whether interaction.user is a discord.Member
\* (never outside a guild).
Contexts ==
    {x \in [guild : BOOLEAN, user_is_member : BOOLEAN] : x.user_is_member => x.guild}

\* A command on a member: who invokes, whom, and both top roles.
MemberInputs ==
    {i \in [ctx : Contexts, author : Moderators, member : Members,
            author_role : Roles, member_role : Roles] :
        i.author = i.member => i.author_role = i.member_role}

(***************************************************************************)
(* Execution context of a handler and the calls it records.                *)
(***************************************************************************)
Ev(op, arg, res) ==
    [op |-> op, arg |-> arg, res |-> res, tgt |-> "", by |-> "", n |-> 0, eph |-> FALSE,
     items |-> <<>>]

NoCfg == [read |-> FALSE]

Ctx0 ==
    [tr |-> <<>>, done |-> FALSE, exc |-> "none", warnings |-> db_warnings,
     val |-> 0, wait |-> FALSE, cfg |-> NoCfg]

Emit(c, e) == [c EXCEPT !.tr = Append(@, e)]

Raise(c, x) == [c EXCEPT !.exc = x]

Caught(c) == [c EXCEPT !.exc = "none"]

IsA_forbidden_unmatched(x, cls) ==
    CASE cls = "Exception" -> x # "none"
      [] cls = "HTTPException" -> x \in {"HTTPException", "Forbidden", "NotFound"}
      [] cls = "Forbidden" -> FALSE
      [] OTHER -> x = cls

\* Which except clause takes an exception: Forbidden and NotFound are
\* HTTPExceptions.
IsA(x, cls) ==
    CASE cls = "Exception" -> x # "none"
      [] cls = "HTTPException" -> x \in {"HTTPException", "Forbidden", "NotFound"}
      [] OTHER -> x = cls

\* Sequential composition: run F on every outcome that has not raised.
Bind(S, F(_)) == UNION {IF c.exc = "none" THEN F(c) ELSE {c} : c \in S}

\* try: S  except ...: H   (H re-raises what it does not catch)
Try(S, H(_)) == UNION {IF c.exc = "none" THEN {c} ELSE H(c) : c \in S}

\* An awaited platform call that ends in one of `outcomes`.
Platform(c, op, tgt, n, outcomes) ==
    {Raise(Emit(c, [Ev(op, "", r) EXCEPT !.tgt = tgt, !.n = n]),
           IF r = "ok" THEN "none" ELSE r) : r \in outcomes}

ActionOutcomes == {"ok", "Forbidden", "HTTPException"}

(***************************************************************************)
(* The store (bot.db).  Every call may raise.                              *)
(***************************************************************************)
StoreCall(c, op, arg, tgt, by) ==
    {Raise(Emit(c, [Ev(op, arg, r) EXCEPT !.tgt = tgt, !.by = by]),
           IF r = "ok" THEN "none" ELSE "Exception") : r \in {"ok", "fail"}}

log_action(c, action, target_id, moderator_id) ==
    StoreCall(c, "db.log_action", action, target_id, moderator_id)

WarningsOf(ws, member_id) == SelectSeq(ws, LAMBDA w : w.member_id = member_id)

FreshId(ws) ==
    IF ws = <<>> THEN 1 ELSE 1 + (CHOOSE m \in {ws[k].id : k \in 1..Len(ws)} :
                                    \A k \in 1..Len(ws) : ws[k].id <= m)

add_warning(c, member_id, moderator_id) ==
    {IF x.exc = "none"
     THEN [x EXCEPT !.warnings = <<[id |-> FreshId(@), member_id |-> member_id]>> \o @]
     ELSE x : x \in StoreCall(c, "db.add_warning", "", member_id, moderator_id)}

get_warning_count(c, member_id) ==
    LET count == Len(WarningsOf(c.warnings, member_id))
    IN  {IF r = "ok"
         THEN [Emit(c, [Ev("db.get_warning_count", "", r) EXCEPT !.tgt = member_id, !.n = count])
                  EXCEPT !.val = count]
         ELSE Raise(Emit(c, [Ev("db.get_warning_count", "", r) EXCEPT !.tgt = member_id]),
                    "Exception")
         : r \in {"ok", "fail"}}

(***************************************************************************)
(* Moderation helpers.                                                     *)
(***************************************************************************)
defer_unchecked(c) ==
    {[Emit(c, [Ev("response.defer", "", r) EXCEPT !.eph = TRUE])
         EXCEPT !.done = (@ \/ r = "ok")] : r \in {"ok", "fail"}}

defer(c) ==
    IF c.done
    THEN {c}
    ELSE {[Emit(c, [Ev("response.defer", "", r) EXCEPT !.eph = TRUE])
              EXCEPT !.done = (r = "ok")] : r \in {"ok", "fail"}}

\* One send on the interaction: response.send_message makes the initial
\* response, followup.send does not change it.
Send(c, send, content, ephemeral) ==
    {IF r = "ok"
     THEN [Emit(c, [Ev(send, content, r) EXCEPT !.eph = ephemeral])
              EXCEPT !.done = (@ \/ send = "response.send_message")]
     ELSE Raise(Emit(c, [Ev(send, content, r) EXCEPT !.eph = ephemeral]), "HTTPException")
     : r \in {"ok", "fail"}}

respond(c, content, ephemeral) ==
    Send(c, IF c.done THEN "followup.send" ELSE "response.send_message", content, ephemeral)

followup_send(c, content, ephemeral) == Send(c, "followup.send", content, ephemeral)

post_modlog_first_channel(c, embed) ==
    Bind(StoreCall(c, "db.get_server_settings", "", "", ""),
         LAMBDA c1 :
            LET channel_id == db_settings.log_channel
            IN  IF channel_id = NoChannel
                THEN {c1}
                ELSE {Emit(c1, [Ev("guild.get_channel", "", "None") EXCEPT !.tgt = channel_id])}
                     \cup {Emit(c1, [Ev("channel.send", embed, r) EXCEPT !.tgt = "c1"])
                              : r \in {"ok", "fail"}})

post_modlog(c, embed) ==
    Bind(StoreCall(c, "db.get_server_settings", "", "", ""),
         LAMBDA c1 :
            LET channel_id == db_settings.log_channel
            IN  IF channel_id = NoChannel
                THEN {c1}
                ELSE {Emit(c1, [Ev("guild.get_channel", "", "None") EXCEPT !.tgt = channel_id])}
                     \cup {Emit(c1, [Ev("channel.send", embed, r) EXCEPT !.tgt = channel_id])
                              : r \in {"ok", "fail"}})

on_app_command_error(c) ==
    IF c.exc = "MissingPermissions"
    THEN respond(Caught(c), "no_permission", TRUE)
    ELSE respond(Caught(c), "error_text", TRUE)

hierarchy_blocked_strictly_higher(i) ==
    i.member_role > i.author_role /\ i.author # owner_id

\* member.top_role >= author.top_role and author.id != interaction.guild.owner_id
hierarchy_blocked(i) ==
    i.member_role >= i.author_role /\ i.author # owner_id

is_guild_owner_never(i) == FALSE

\* member == interaction.guild.owner
is_guild_owner(i) == i.member = owner_id

guild_guard(i) == ~i.ctx.guild \/ ~i.ctx.user_is_member

(***************************************************************************)
(* kick                                                                    *)
(***************************************************************************)
kick_defer_first(c, i) ==
    Bind(defer(c), LAMBDA c1 :
      IF guild_guard(i)
      THEN respond(c1, "guild_only", TRUE)
      ELSE IF is_guild_owner(i)
      THEN respond(c1, "kick_owner", TRUE)
      ELSE IF hierarchy_blocked(i)
      THEN respond(c1, "kick_hierarchy", TRUE)
      ELSE Try(Bind(Platform(c1, "member.kick", i.member, 0, ActionOutcomes),
                 LAMBDA c2 : Bind(log_action(c2, "kick", i.member, i.author),
                 LAMBDA c3 : Bind(respond(c3, "kick_ok", FALSE),
                 LAMBDA c4 : post_modlog(c4, "kick_ok")))),
               LAMBDA x :
                 IF IsA(x.exc, "Forbidden") THEN respond(Caught(x), "kick_forbidden", TRUE)
                 ELSE IF IsA(x.exc, "HTTPException") THEN respond(Caught(x), "kick_http", TRUE)
                 ELSE {x}))

kick(c, i) ==
    IF guild_guard(i)
    THEN respond(c, "guild_only", TRUE)
    ELSE IF is_guild_owner(i)
    THEN respond(c, "kick_owner", TRUE)
    ELSE IF hierarchy_blocked(i)
    THEN respond(c, "kick_hierarchy", TRUE)
    ELSE Bind(defer(c), LAMBDA c1 :
           Try(Bind(Platform(c1, "member.kick", i.member, 0, ActionOutcomes),
                 LAMBDA c2 : Bind(log_action(c2, "kick", i.member, i.author),
                 LAMBDA c3 : Bind(respond(c3, "kick_ok", FALSE),
                 LAMBDA c4 : post_modlog(c4, "kick_ok")))),
               LAMBDA x :
                 IF IsA(x.exc, "Forbidden") THEN respond(Caught(x), "kick_forbidden", TRUE)
                 ELSE IF IsA(x.exc, "HTTPException") THEN respond(Caught(x), "kick_http", TRUE)
                 ELSE {x}))

(***************************************************************************)
(* ban: the guards and the confirmation prompt; then, once the view has    *)
(* resolved, the rest of the handler.                                      *)
(***************************************************************************)
ban(c, i) ==
    IF guild_guard(i)
    THEN respond(c, "guild_only", TRUE)
    ELSE IF is_guild_owner(i)
    THEN respond(c, "ban_owner", TRUE)
    ELSE IF hierarchy_blocked(i)
    THEN respond(c, "ban_hierarchy", TRUE)
    ELSE Bind(respond(c, "ban_confirm", TRUE),
              LAMBDA c1 : {[c1 EXCEPT !.wait = TRUE]})

\* msg.edit on the prompt, which is ephemeral.
message_edit(c, content) ==
    {Raise(Emit(c, [Ev("message.edit", content, r) EXCEPT !.eph = TRUE]),
           IF r = "ok" THEN "none" ELSE "HTTPException") : r \in {"ok", "fail"}}

\* if msg: await msg.edit(...)  else: await self._respond(..., ephemeral=True)
edit_or_respond(c, msg, content) ==
    IF msg THEN message_edit(c, content) ELSE respond(c, content, TRUE)

confirmed_unless_declined(value) == value # "declined"

\* view.value is True: None after a timeout, False after a decline.
confirmed(value) == value = "accepted"

\* msg: whether interaction.original_response() returned the prompt.
ban_resolved(c, i, value, msg) ==
    IF ~confirmed(value)
    THEN IF msg THEN message_edit(c, "ban_cancelled") ELSE {c}
    ELSE Try(Bind(Platform(c, "member.ban", i.member, 0, ActionOutcomes),
               LAMBDA c2 : Bind(log_action(c2, "ban", i.member, i.author),
               LAMBDA c3 : Bind(edit_or_respond(c3, msg, "ban_ok"),
               LAMBDA c4 : post_modlog(c4, "ban_ok")))),
             LAMBDA x :
               IF IsA(x.exc, "Forbidden") THEN edit_or_respond(Caught(x), msg, "ban_forbidden")
               ELSE IF IsA(x.exc, "HTTPException") THEN edit_or_respond(Caught(x), msg, "ban_http")
               ELSE {x})

ban_after_wait(c, i, value) ==
    UNION {ban_resolved(Emit(c, Ev("original_response", "", r)), i, value, r = "ok")
              : r \in {"ok", "fail"}}

(***************************************************************************)
(* unban: user_id is a string, here a sequence of characters.              *)
(***************************************************************************)
Digits == {"0", "1", "2", "3", "4", "5", "6", "7", "8", "9"}

DigitValue(ch) ==
    CASE ch = "0" -> 0 [] ch = "1" -> 1 [] ch = "2" -> 2 [] ch = "3" -> 3 [] ch = "4" -> 4
      [] ch = "5" -> 5 [] ch = "6" -> 6 [] ch = "7" -> 7 [] ch = "8" -> 8 [] ch = "9" -> 9

RECURSIVE lstrip(_)
lstrip(s) == IF s # <<>> /\ Head(s) = " " THEN lstrip(Tail(s)) ELSE s

RECURSIVE rstrip(_)
rstrip(s) == IF s # <<>> /\ s[Len(s)] = " " THEN rstrip(SubSeq(s, 1, Len(s) - 1)) ELSE s

\* str.strip()
strip(s) == rstrip(lstrip(s))

\* str.replace(old, ""): every non-overlapping occurrence, left to right.
RECURSIVE replace(_, _)
replace(s, old) ==
    IF Len(s) < Len(old) THEN s
    ELSE IF SubSeq(s, 1, Len(old)) = old
         THEN replace(SubSeq(s, Len(old) + 1, Len(s)), old)
         ELSE <<Head(s)>> \o replace(Tail(s), old)

\* str.isdigit()
isdigit(s) == s # <<>> /\ \A k \in 1..Len(s) : s[k] \in Digits

\* int() of a digit string
RECURSIVE int(_)
int(s) == IF s = <<>> THEN 0 ELSE 10 * int(SubSeq(s, 1, Len(s) - 1)) + DigitValue(s[Len(s)])

clean_user_id_keeping_bang(user_id) ==
    replace(replace(strip(user_id), <<"<", "@">>), <<">">>)

\* user_id.strip().replace("<@", "").replace(">", "").replace("!", "")
clean_user_id(user_id) ==
    replace(replace(replace(strip(user_id), <<"<", "@">>), <<">">>), <<"!">>)

\* Identifiers tried by the commands of the main specification.
SampleIds ==
    {<<"1", "2">>, <<"<", "@", "1", "2", ">">>, <<"<", "@", "!", "1", "2", ">">>,
     <<" ", "1", "2", " ">>, <<"a", "b", "c">>, <<>>, <<"1", "<", "@", "2">>}

UnbanInputs == [ctx : Contexts, author : Moderators, user_id : SampleIds]

unban(c, i) ==
    IF guild_guard(i)
    THEN respond(c, "guild_only", TRUE)
    ELSE IF ~isdigit(clean_user_id(i.user_id))
    THEN respond(c, "unban_invalid", TRUE)
    ELSE LET uid == int(clean_user_id(i.user_id))
         IN  Bind(defer(c), LAMBDA c1 :
               Try(Bind(Platform(c1, "bot.fetch_user", "", uid,
                                 {"ok", "NotFound", "HTTPException"}),
                     LAMBDA c2 : Bind(Platform(c2, "guild.unban", "", uid,
                                               {"ok", "NotFound", "Forbidden", "HTTPException"}),
                     LAMBDA c3 : Bind(log_action(c3, "unban", ToString(uid), i.author),
                     LAMBDA c4 : Bind(respond(c4, "unban_ok", FALSE),
                     LAMBDA c5 : post_modlog(c5, "unban_ok"))))),
                   LAMBDA x :
                     IF IsA(x.exc, "NotFound") THEN respond(Caught(x), "unban_notfound", TRUE)
                     ELSE IF IsA(x.exc, "Forbidden") THEN respond(Caught(x), "unban_forbidden", TRUE)
                     ELSE IF IsA(x.exc, "HTTPException") THEN respond(Caught(x), "unban_http", TRUE)
                     ELSE {x}))

(***************************************************************************)
(* timeout, untimeout                                                      *)
(***************************************************************************)
timeout(c, i) ==
    IF guild_guard(i)
    THEN respond(c, "guild_only", TRUE)
    ELSE IF hierarchy_blocked(i)
    THEN respond(c, "timeout_hierarchy", TRUE)
    ELSE Bind(defer(c), LAMBDA c1 :
           Try(Bind(Platform(c1, "member.timeout", i.member, i.duration, ActionOutcomes),
                 LAMBDA c2 : Bind(log_action(c2, "timeout", i.member, i.author),
                 LAMBDA c3 : Bind(respond(c3, "timeout_ok", FALSE),
                 LAMBDA c4 : post_modlog(c4, "timeout_ok")))),
               LAMBDA x :
                 IF IsA(x.exc, "Forbidden") THEN respond(Caught(x), "timeout_forbidden", TRUE)
                 ELSE IF IsA(x.exc, "HTTPException") THEN respond(Caught(x), "timeout_http", TRUE)
                 ELSE {x}))

\* member.timeout(None, ...) removes the timeout.
untimeout(c, i) ==
    IF guild_guard(i)
    THEN respond(c, "guild_only", TRUE)
    ELSE Bind(defer(c), LAMBDA c1 :
           Try(Bind(Platform(c1, "member.timeout(None)", i.member, 0, ActionOutcomes),
                 LAMBDA c2 : Bind(log_action(c2, "untimeout", i.member, i.author),
                 LAMBDA c3 : Bind(respond(c3, "untimeout_ok", FALSE),
                 LAMBDA c4 : post_modlog(c4, "untimeout_ok")))),
               LAMBDA x :
                 IF IsA(x.exc, "Forbidden") THEN respond(Caught(x), "untimeout_forbidden", TRUE)
                 ELSE IF IsA(x.exc, "HTTPException") THEN respond(Caught(x), "untimeout_http", TRUE)
                 ELSE {x}))

(***************************************************************************)
(* warn.  The process-wide configuration (bot.config["moderation"]) is     *)
(* read when the handler gets to it; a value is an int, is missing, or is  *)
(* something int() / timedelta() raises on.                                *)
(***************************************************************************)
IntVal(v) == [k |-> "int", v |-> v]
Missing == [k |-> "missing", v |-> 0]
Malformed == [k |-> "malformed", v |-> 0]

\* try: int(mod_cfg.get(key, default))  except Exception: default
int_or(x, default) == IF x.k = "int" THEN x.v ELSE default

ActionMissing == "<missing>"

\* str(mod_cfg.get("warn_threshold_action", "none")).lower()
lower_action(a) ==
    CASE a = ActionMissing -> "none"
      [] a = "KICK" -> "kick"
      [] OTHER -> a

Unread == [k |-> "unread", v |-> 0]

\* What lines 252-261 read of the configuration.
WarnCfgs ==
    {[read |-> TRUE, is_dict |-> FALSE, warn_threshold |-> Missing,
      warn_threshold_action |-> ActionMissing, warn_threshold_timeout_duration |-> Unread]}
    \cup
    {[read |-> TRUE, is_dict |-> TRUE, warn_threshold |-> t,
      warn_threshold_action |-> a, warn_threshold_timeout_duration |-> Unread] :
        t \in {Missing, Malformed} \cup {IntVal(v) : v \in (-1)..MaxWarnings},
        a \in {ActionMissing, "none", "timeout", "KICK", "ban", "mute"}}

\* What line 267 finds under "warn_threshold_timeout_duration".
DurationCfgs == {Missing, Malformed} \cup {IntVal(d) : d \in Durations}

\* One branch of the auto action: the platform call, the public notice, and
\* the permission error instead.
auto_branch(c, op, member, n, notice, error) ==
    Try(Bind(Platform(c, op, member, n, ActionOutcomes),
             LAMBDA c1 : followup_send(c1, notice, FALSE)),
        LAMBDA x :
          IF IsA(x.exc, "Forbidden") THEN followup_send(Caught(x), error, TRUE) ELSE {x})

\* Lines 267-275: a missing key raises KeyError at the subscript, a value
\* timedelta() does not take raises TypeError inside the try.
warn_auto_timeout(c, i, duration) ==
    IF duration.k = "missing" THEN {Raise(c, "KeyError")}
    ELSE IF duration.k = "malformed" THEN {Raise(c, "TypeError")}
    ELSE auto_branch(c, "member.timeout", i.member, duration.v,
                     "auto_timeout", "timeout_forbidden")

\* Lines 251-295.
warn_auto_action(c, i, cfg) ==
    LET warn_threshold == IF cfg.is_dict THEN int_or(cfg.warn_threshold, 0) ELSE 0
        auto_action == IF cfg.is_dict THEN lower_action(cfg.warn_threshold_action) ELSE "none"
        warning_count == c.val
    IN  IF warn_threshold <= 0 \/ auto_action = "none"
        THEN {c}
        ELSE IF warning_count >= warn_threshold /\ auto_action # "none"
        THEN CASE auto_action = "timeout" ->
                    UNION {warn_auto_timeout(
                             [c EXCEPT !.cfg.warn_threshold_timeout_duration = duration],
                             i, duration) : duration \in DurationCfgs}
               [] auto_action = "kick" ->
                    auto_branch(c, "member.kick", i.member, 0, "auto_kick", "kick_forbidden")
               [] auto_action = "ban" ->
                    auto_branch(c, "member.ban", i.member, 0, "auto_ban", "ban_forbidden")
               [] OTHER -> {c}
        ELSE {c}

member_send_unguarded(c, member) ==
    {Raise(Emit(c, [Ev("member.send", "warn_dm", r) EXCEPT !.tgt = member]),
           IF r = "ok" THEN "none" ELSE "Forbidden") : r \in {"ok", "fail"}}

\* try: await member.send(embed=dm_embed)  except Exception: pass
member_send(c, member) ==
    {Emit(c, [Ev("member.send", "warn_dm", r) EXCEPT !.tgt = member]) : r \in {"ok", "fail"}}

warn(c, i) ==
    IF guild_guard(i)
    THEN respond(c, "guild_only", TRUE)
    ELSE IF hierarchy_blocked(i)
    THEN respond(c, "warn_hierarchy", TRUE)
    ELSE Bind(defer(c),
         LAMBDA c1 : Bind(add_warning(c1, i.member, i.author),
         LAMBDA c2 : Bind(log_action(c2, "warn", i.member, i.author),
         LAMBDA c3 : Bind(get_warning_count(c3, i.member),
         LAMBDA c4 : Bind({[y EXCEPT !.tr[Len(y.tr)].n = c4.val]
                              : y \in respond(c4, "warn_ok", FALSE)},
         LAMBDA c5 : Bind(post_modlog(c5, "warn_ok"),
         LAMBDA c6 : Bind(member_send(c6, i.member),
         LAMBDA c7 : UNION {warn_auto_action([c7 EXCEPT !.cfg = cfg], i, cfg)
                               : cfg \in WarnCfgs})))))))

(***************************************************************************)
(* purge                                                                   *)
(***************************************************************************)
DefaultMaxPurge == 100
Amounts == {1, 50, 51, 100, 101, 500}

PurgeCfgs ==
    {[read |-> TRUE, is_dict |-> FALSE, max_purge_amount |-> Missing]}
    \cup {[read |-> TRUE, is_dict |-> TRUE, max_purge_amount |-> m] :
            m \in {Missing, Malformed, IntVal(50)}}

PurgeInputs ==
    [ctx : Contexts, author : Moderators, amount : Amounts, channel_has_purge : BOOLEAN]

max_amount_unconfigured(cfg) == DefaultMaxPurge

\* try: int(mod_cfg.get("max_purge_amount", 100))  except Exception: 100
max_amount(cfg) ==
    IF cfg.is_dict THEN int_or(cfg.max_purge_amount, DefaultMaxPurge) ELSE DefaultMaxPurge

\* channel.purge(limit=amount) returns the messages it deleted.
channel_purge(c, amount) ==
    {[Emit(c, [Ev("channel.purge", "", "ok") EXCEPT !.n = amount]) EXCEPT !.val = deleted]
        : deleted \in {0, amount}}
    \cup {Raise(Emit(c, [Ev("channel.purge", "", r) EXCEPT !.n = amount]), r)
            : r \in {"Forbidden", "HTTPException"}}

response_defer(c) ==
    {IF r = "ok"
     THEN [Emit(c, [Ev("response.defer", "", r) EXCEPT !.eph = TRUE]) EXCEPT !.done = TRUE]
     ELSE Raise(Emit(c, [Ev("response.defer", "", r) EXCEPT !.eph = TRUE]), "HTTPException")
     : r \in {"ok", "fail"}}

purge_checked(c, i, cfg) ==
    IF i.amount > max_amount(cfg)
    THEN {[x EXCEPT !.tr[Len(x.tr)].n = max_amount(cfg)] : x \in respond(c, "purge_max", TRUE)}
    ELSE Bind(response_defer(c), LAMBDA c1 :
           IF ~i.channel_has_purge
           THEN followup_send(c1, "purge_no_text_channel", TRUE)
           ELSE Try(Bind(channel_purge(c1, i.amount),
                      LAMBDA c2 : Bind(followup_send(c2, "purge_ok", TRUE),
                      LAMBDA c3 : log_action(c3, "purge", i.author, i.author))),
                    LAMBDA x :
                      IF IsA(x.exc, "Forbidden")
                      THEN followup_send(Caught(x), "purge_forbidden", TRUE)
                      ELSE IF IsA(x.exc, "HTTPException")
                      THEN followup_send(Caught(x), "purge_http", TRUE)
                      ELSE {x}))

purge(c, i) ==
    IF ~i.ctx.guild
    THEN respond(c, "guild_only", TRUE)
    ELSE UNION {purge_checked([c EXCEPT !.cfg = cfg], i, cfg) : cfg \in PurgeCfgs}

(***************************************************************************)
(* warnings, clearwarnings, unwarn.  The store's reads and deletions; the  *)
(* two calls made through _db_call may not answer within its 10 seconds.   *)
(***************************************************************************)
Ids(ws) == [k \in DOMAIN ws |-> ws[k].id]

\* The coroutine bot.db.get_warnings(guild_id, member_id): the member's
\* records in the store's order, an error, or no answer in time ("Slow").
get_warnings(c, member_id, answers) ==
    LET ws == WarningsOf(c.warnings, member_id)
    IN  {IF r = "ok"
         THEN Emit(c, [Ev("db.get_warnings", "", r) EXCEPT
                          !.tgt = member_id, !.n = Len(ws), !.items = Ids(ws)])
         ELSE Raise(Emit(c, [Ev("db.get_warnings", "", r) EXCEPT !.tgt = member_id]),
                    IF r = "slow" THEN "Slow" ELSE "Exception")
         : r \in answers}

\* The coroutine bot.db.clear_warnings(guild_id, member_id): deletes the
\* member's records and returns how many.  When it does not answer in time
\* the deletion may or may not have been done.
clear_warnings(c, member_id) ==
    LET ws == WarningsOf(c.warnings, member_id)
        cleared == SelectSeq(c.warnings, LAMBDA w : w.member_id # member_id)
    IN  {[Emit(c, [Ev("db.clear_warnings", "", "ok") EXCEPT !.tgt = member_id, !.n = Len(ws)])
             EXCEPT !.warnings = cleared, !.val = Len(ws)]}
        \cup {Raise(Emit(c, [Ev("db.clear_warnings", "", "fail") EXCEPT !.tgt = member_id]),
                    "Exception")}
        \cup {Raise([Emit(c, [Ev("db.clear_warnings", "", "slow") EXCEPT !.tgt = member_id])
                        EXCEPT !.warnings = w], "Slow") : w \in {c.warnings, cleared}}

db_call_unbounded(S) ==
    {IF x.exc = "Slow" THEN Caught(x) ELSE x : x \in S}

\* asyncio.wait_for(coro, timeout=timeout): the answer, or TimeoutError.
db_call(S) ==
    {IF x.exc = "Slow" THEN Raise(x, "TimeoutError") ELSE x : x \in S}

Without(ws, k) == SubSeq(ws, 1, k - 1) \o SubSeq(ws, k + 1, Len(ws))

\* bot.db.delete_warning(guild_id, wid): deletes the record with that id.
delete_warning(c, wid) ==
    {IF x.exc = "none"
     THEN [x EXCEPT !.warnings = SelectSeq(@, LAMBDA w : w.id # wid)]
     ELSE x : x \in {[y EXCEPT !.tr[Len(y.tr)].n = wid] :
                        y \in StoreCall(c, "db.delete_warning", "", "", "")}}

\* bot.db.remove_warning(guild_id, member_id): deletes one record of the
\* member, whichever the backend picks, and nothing when there is none.
remove_warning(c, member_id) ==
    UNION {IF x.exc = "none" /\ WarningsOf(x.warnings, member_id) # <<>>
           THEN {[x EXCEPT !.warnings = Without(@, k)] :
                    k \in {j \in DOMAIN x.warnings : x.warnings[j].member_id = member_id}}
           ELSE {x} : x \in StoreCall(c, "db.remove_warning", "", member_id, "")}

ListLimit == 10

FirstN_unlimited(ws, limit) == ws

\* warnings[:10]
FirstN(ws, limit) == SubSeq(ws, 1, IF Len(ws) < limit THEN Len(ws) ELSE limit)

WarningsInputs == [ctx : Contexts, author : Moderators, member : Members]

warnings(c, i) ==
    IF ~i.ctx.guild
    THEN respond(c, "guild_only", TRUE)
    ELSE Bind(defer(c), LAMBDA c1 :
           UNION {IF x.exc = "TimeoutError"
                  THEN respond(Caught(x), "warnings_timeout", TRUE)
                  ELSE IF x.exc # "none"
                  THEN {x}
                  ELSE LET got == x.tr[Len(x.tr)]
                       IN  IF got.n = 0
                           THEN respond(x, "no_warnings", TRUE)
                           ELSE {[y EXCEPT !.tr[Len(y.tr)].n = got.n,
                                           !.tr[Len(y.tr)].items = FirstN(got.items, ListLimit)]
                                    : y \in respond(x, "warnings_list", TRUE)}
                  : x \in db_call(get_warnings(c1, i.member, {"ok", "fail", "slow"}))})

clearwarnings_reporting_remaining(c, i) ==
    IF ~i.ctx.guild
    THEN respond(c, "guild_only", TRUE)
    ELSE Bind(defer(c), LAMBDA c1 :
           UNION {IF x.exc = "TimeoutError"
                  THEN respond(Caught(x), "clearwarnings_timeout", TRUE)
                  ELSE IF x.exc # "none"
                  THEN {x}
                  ELSE {[y EXCEPT !.tr[Len(y.tr)].n = Len(WarningsOf(x.warnings, i.member))]
                           : y \in respond(x, "clearwarnings_ok", TRUE)}
                  : x \in db_call(clear_warnings(c1, i.member))})

clearwarnings(c, i) ==
    IF ~i.ctx.guild
    THEN respond(c, "guild_only", TRUE)
    ELSE Bind(defer(c), LAMBDA c1 :
           UNION {IF x.exc = "TimeoutError"
                  THEN respond(Caught(x), "clearwarnings_timeout", TRUE)
                  ELSE IF x.exc # "none"
                  THEN {x}
                  ELSE {[y EXCEPT !.tr[Len(y.tr)].n = x.val]
                           : y \in respond(x, "clearwarnings_ok", TRUE)}
                  : x \in db_call(clear_warnings(c1, i.member))})

\* What unwarn finds of the backend: hasattr(db, "delete_warning"),
\* hasattr(db, "remove_warning"), and whether the records it returns carry
\* an identifier under "id", "warning_id" or "_id".
UnwarnInputs ==
    [ctx : Contexts, author : Moderators, member : Members,
     has_delete_warning : BOOLEAN, has_remove_warning : BOOLEAN, has_id : BOOLEAN]

unwarn_latest_coarse_first(c, i, got) ==
    LET wid == got.items[1]
        counted(x) ==
            Bind(get_warning_count(x, i.member),
              LAMBDA c4 : Bind(log_action(c4, "unwarn", i.member, i.author),
              LAMBDA c5 : {[y EXCEPT !.tr[Len(y.tr)].n = c4.val]
                              : y \in respond(c5, "unwarn_ok", TRUE)}))
    IN  IF i.has_remove_warning
        THEN Bind(remove_warning(c, i.member), counted)
        ELSE IF i.has_id /\ i.has_delete_warning
        THEN Bind(delete_warning(c, wid), counted)
        ELSE respond(c, "unwarn_unsupported", TRUE)

unwarn_latest_by_id_only(c, i, got) ==
    LET wid == got.items[1]
        counted(x) ==
            Bind(get_warning_count(x, i.member),
              LAMBDA c4 : Bind(log_action(c4, "unwarn", i.member, i.author),
              LAMBDA c5 : {[y EXCEPT !.tr[Len(y.tr)].n = c4.val]
                              : y \in respond(c5, "unwarn_ok", TRUE)}))
    IN  IF i.has_id /\ i.has_delete_warning
        THEN Bind(delete_warning(c, wid), counted)
        ELSE respond(c, "unwarn_unsupported", TRUE)

\* Lines 442-459.
unwarn_latest(c, i, got) ==
    LET wid == got.items[1]
        counted(x) ==
            Bind(get_warning_count(x, i.member),
              LAMBDA c4 : Bind(log_action(c4, "unwarn", i.member, i.author),
              LAMBDA c5 : {[y EXCEPT !.tr[Len(y.tr)].n = c4.val]
                              : y \in respond(c5, "unwarn_ok", TRUE)}))
    IN  IF i.has_id /\ i.has_delete_warning
        THEN Bind(delete_warning(c, wid), counted)
        ELSE IF i.has_remove_warning
        THEN Bind(remove_warning(c, i.member), counted)
        ELSE respond(c, "unwarn_unsupported", TRUE)

unwarn(c, i) ==
    IF ~i.ctx.guild
    THEN respond(c, "guild_only", TRUE)
    ELSE Bind(defer(c),
         LAMBDA c1 : Bind(get_warnings(c1, i.member, {"ok", "fail"}),
         LAMBDA c2 :
            LET got == c2.tr[Len(c2.tr)]
            IN  IF got.n = 0
                THEN respond(c2, "unwarn_none", TRUE)
                ELSE unwarn_latest(c2, i, got)))

(***************************************************************************)
(* features                                                                *)
(***************************************************************************)
features(c, i) == respond(c, "features", TRUE)

(***************************************************************************)
(* setup logchannel (cogs/setup.py)                                        *)
(***************************************************************************)
SetupInputs == [ctx : Contexts, author : Moderators, channel : Channels]

setup_defer(c) ==
    IF c.done
    THEN {c}
    ELSE {[Emit(c, [Ev("response.defer", "", r) EXCEPT !.eph = TRUE])
              EXCEPT !.done = (r = "ok")] : r \in {"ok", "fail"}}

\* bot.db.update_server_setting(guild.id, key, value); interaction.guild.id
\* raises AttributeError outside a guild.
update_server_setting(c, i, key, value) ==
    IF ~i.ctx.guild
    THEN {Raise(c, "AttributeError")}
    ELSE {IF x.exc = "none" THEN [x EXCEPT !.val = 1] ELSE x
            : x \in StoreCall(c, "db.update_server_setting", key, value, "")}

setup_logchannel(c, i) ==
    Bind(setup_defer(c),
      LAMBDA c1 : Bind(update_server_setting(c1, i, "log_channel", i.channel),
      LAMBDA c2 : followup_send(c2, "logchannel_set", TRUE)))

setup_welcomechannel_as_logchannel(c, i) ==
    Bind(setup_defer(c),
      LAMBDA c1 : Bind(update_server_setting(c1, i, "log_channel", i.channel),
      LAMBDA c2 : followup_send(c2, "welcomechannel_set", TRUE)))

setup_welcomechannel(c, i) ==
    Bind(setup_defer(c),
      LAMBDA c1 : Bind(update_server_setting(c1, i, "welcome_channel", i.channel),
      LAMBDA c2 : followup_send(c2, "welcomechannel_set", TRUE)))

\* bot.db.get_server_settings(interaction.guild.id) as setup config calls
\* it; interaction.guild.id raises AttributeError outside a guild.
setup_get_server_settings(c, i) ==
    IF ~i.ctx.guild
    THEN {Raise(c, "AttributeError")}
    ELSE StoreCall(c, "db.get_server_settings", "", "", "")

\* interaction.guild.get_channel(settings.get(key)) if settings.get(key) else None
setup_get_channel(c, channel_id) ==
    IF channel_id = NoChannel
    THEN {c}
    ELSE {Emit(c, [Ev("guild.get_channel", "", r) EXCEPT !.tgt = channel_id])
             : r \in {"ok", "None"}}

\* settings: the guild's record as the store holds it.
setup_config(c, i, settings) ==
    Bind(setup_defer(c),
      LAMBDA c1 : Bind(setup_get_server_settings(c1, i),
      LAMBDA c2 : Bind(setup_get_channel(c2, settings.log_channel),
      LAMBDA c3 : Bind(setup_get_channel(c3, settings.welcome_channel),
      LAMBDA c4 : followup_send(c4, "setup_config", TRUE)))))

cog_app_command_error(c) ==
    LET send == IF c.done THEN "followup.send" ELSE "response.send_message"
    IN  IF c.exc = "MissingPermissions"
        THEN Send(Caught(c), send, "need_administrator", TRUE)
        ELSE Send(Caught(c), send, "error_text", TRUE)

(***************************************************************************)
(* Actions.                                                                *)
(***************************************************************************)
Idle == [phase |-> "idle"]

\* The dispatcher: the handler, and the cog's error handler on whatever the
\* handler raised.
Dispatch(c, handler(_)) == Try(handler(c), LAMBDA x : on_app_command_error(x))

DispatchSetup(c, handler(_)) == Try(handler(c), LAMBDA x : cog_app_command_error(x))

ModerationCommands ==
    {"kick", "ban", "unban", "warn", "warnings", "clearwarnings", "timeout", "untimeout",
     "mute", "unmute", "unwarn", "features", "purge"}

Finished(cmd, i, c) ==
    /\ call' = [phase |-> IF c.wait /\ c.exc = "none" THEN "waiting" ELSE "finished",
                cmd |-> cmd, inp |-> i, cfg |-> c.cfg,
                tr |-> c.tr, done |-> c.done, exc |-> c.exc]
    /\ db_warnings' = c.warnings

Kick ==
    /\ call.phase = "idle"
    /\ \E i \in MemberInputs :
         \E c \in Dispatch(Ctx0, LAMBDA c0 : kick(c0, i)) :
            Finished("kick", i, c)
    /\ UNCHANGED db_settings

Ban ==
    /\ call.phase = "idle"
    /\ \E i \in MemberInputs :
         \E c \in Dispatch(Ctx0, LAMBDA c0 : ban(c0, i)) :
            Finished("ban", i, c)
    /\ UNCHANGED db_settings

\* view.wait() returns: the moderator accepted, declined, or the view timed out.
BanResolve ==
    /\ call.phase = "waiting"
    /\ \E value \in {"accepted", "declined", "timed_out"} :
         \E c \in Dispatch([Ctx0 EXCEPT !.tr = call.tr, !.done = call.done],
                           LAMBDA c0 : ban_after_wait(c0, call.inp, value)) :
            Finished("ban", [ctx |-> call.inp.ctx, author |-> call.inp.author,
                             member |-> call.inp.member, author_role |-> call.inp.author_role,
                             member_role |-> call.inp.member_role, value |-> value], c)
    /\ UNCHANGED db_settings

Unban ==
    /\ call.phase = "idle"
    /\ \E i \in UnbanInputs :
         \E c \in Dispatch(Ctx0, LAMBDA c0 : unban(c0, i)) :
            Finished("unban", i, c)
    /\ UNCHANGED db_settings

Warn ==
    /\ call.phase = "idle"
    /\ Len(db_warnings) < MaxWarnings
    /\ FreshId(db_warnings) <= MaxWarnings
    /\ \E i \in MemberInputs :
         \E c \in Dispatch(Ctx0, LAMBDA c0 : warn(c0, i)) :
            Finished("warn", i, c)
    /\ UNCHANGED db_settings

Timeout ==
    /\ call.phase = "idle"
    /\ \E i \in MemberInputs, d \in Durations :
         \E c \in Dispatch(Ctx0,
                           LAMBDA c0 : timeout(c0, [ctx |-> i.ctx, author |-> i.author,
                                                    member |-> i.member,
                                                    author_role |-> i.author_role,
                                                    member_role |-> i.member_role,
                                                    duration |-> d])) :
            Finished("timeout", [ctx |-> i.ctx, author |-> i.author, member |-> i.member,
                                 author_role |-> i.author_role, member_role |-> i.member_role,
                                 duration |-> d], c)
    /\ UNCHANGED db_settings

Untimeout ==
    /\ call.phase = "idle"
    /\ \E i \in [ctx : Contexts, author : Moderators, member : Members] :
         \E c \in Dispatch(Ctx0, LAMBDA c0 : untimeout(c0, i)) :
            Finished("untimeout", i, c)
    /\ UNCHANGED db_settings

Purge ==
    /\ call.phase = "idle"
    /\ \E i \in PurgeInputs :
         \E c \in Dispatch(Ctx0, LAMBDA c0 : purge(c0, i)) :
            Finished("purge", i, c)
    /\ UNCHANGED db_settings

SetupLogchannel ==
    /\ call.phase = "idle"
    /\ \E i \in SetupInputs :
         \E c \in DispatchSetup(Ctx0, LAMBDA c0 : setup_logchannel(c0, i)) :
            /\ Finished("setup logchannel", i, c)
            /\ db_settings' = IF c.val = 1
                              THEN [db_settings EXCEPT !.log_channel = i.channel]
                              ELSE db_settings

Warnings ==
    /\ call.phase = "idle"
    /\ \E i \in WarningsInputs :
         \E c \in Dispatch(Ctx0, LAMBDA c0 : warnings(c0, i)) :
            Finished("warnings", i, c)
    /\ UNCHANGED db_settings

Clearwarnings ==
    /\ call.phase = "idle"
    /\ \E i \in WarningsInputs :
         \E c \in Dispatch(Ctx0, LAMBDA c0 : clearwarnings(c0, i)) :
            Finished("clearwarnings", i, c)
    /\ UNCHANGED db_settings

Unwarn ==
    /\ call.phase = "idle"
    /\ \E i \in UnwarnInputs :
         \E c \in Dispatch(Ctx0, LAMBDA c0 : unwarn(c0, i)) :
            Finished("unwarn", i, c)
    /\ UNCHANGED db_settings

Features ==
    /\ call.phase = "idle"
    /\ \E i \in [ctx : Contexts, author : Moderators] :
         \E c \in Dispatch(Ctx0, LAMBDA c0 : features(c0, i)) :
            Finished("features", i, c)
    /\ UNCHANGED db_settings

\* The has_permissions check of the command's decorator fails: the handler
\* does not run and the error handler gets MissingPermissions.
Denied ==
    /\ call.phase = "idle"
    /\ \E cmd \in ModerationCommands :
         \E c \in on_app_command_error(Raise(Ctx0, "MissingPermissions")) :
            Finished("denied", [cmd |-> cmd], c)
    /\ UNCHANGED db_settings

\* The handler's task has ended; the dispatcher drops the interaction.
Complete ==
    /\ call.phase = "finished"
    /\ call' = Idle
    /\ UNCHANGED <<db_warnings, db_settings>>

Init ==
    /\ db_warnings = <<>>
    /\ db_settings = [log_channel |-> NoChannel, welcome_channel |-> NoChannel]
    /\ call = Idle

Next ==
    \/ Kick
    \/ Ban
    \/ BanResolve
    \/ Unban
    \/ Warn
    \/ Timeout
    \/ Untimeout
    \/ Purge
    \/ Features
    \/ SetupLogchannel
    \/ Denied
    \/ Complete

Spec == Init /\ [][Next]_vars

(***************************************************************************)
(* The commands on the warning store: warnings are added, listed, cleared  *)
(* and removed, in any order.                                              *)
(***************************************************************************)
NextStore ==
    \/ Warn
    \/ Warnings
    \/ Clearwarnings
    \/ Unwarn
    \/ Complete

SpecStore == Init /\ [][NextStore]_vars

(***************************************************************************)
(* One member warned over and over by the guild owner, and the member's    *)
(* warnings listed, up to MaxHistory warnings.                             *)
(***************************************************************************)
MaxHistory == 11

HistoryInput ==
    [ctx |-> [guild |-> TRUE, user_is_member |-> TRUE], author |-> owner_id,
     member |-> "u2", author_role |-> 1, member_role |-> 1]

WarnAgain ==
    /\ call.phase = "idle"
    /\ Len(db_warnings) < MaxHistory
    /\ \E c \in Dispatch(Ctx0, LAMBDA c0 : warn(c0, HistoryInput)) :
          Finished("warn", HistoryInput, c)
    /\ UNCHANGED db_settings

WarningsAgain ==
    /\ call.phase = "idle"
    /\ \E c \in Dispatch(Ctx0, LAMBDA c0 : warnings(c0, HistoryInput)) :
          Finished("warnings", HistoryInput, c)
    /\ UNCHANGED db_settings

NextHistory ==
    \/ WarnAgain
    \/ WarningsAgain
    \/ Complete

SpecHistory == Init /\ [][NextHistory]_vars

(***************************************************************************)
(* The deferral helpers of the two cogs, called up to MaxDefers times in   *)
(* sequence on one interaction, which may have been responded to before.   *)
(***************************************************************************)
MaxDefers == 3

\* The interaction as a handler first sees it: untouched, or after one
\* send, which made the initial response unless it failed.
Interactions ==
    {Ctx0} \cup {Caught(x) : x \in respond(Ctx0, "guild_only", TRUE)}

DeferOpen ==
    /\ call.phase = "idle"
    /\ \E c \in Interactions :
          call' = [phase |-> "open", cmd |-> "_defer", inp |-> <<>>, cfg |-> NoCfg,
                   tr |-> c.tr, done |-> c.done, exc |-> c.exc]
    /\ UNCHANGED <<db_warnings, db_settings>>

\* One more call of a helper on the open interaction; inp keeps, per call,
\* which helper, whether the interaction had its initial response, and the
\* trace lengths before and after.
Deferred(helper, c) ==
    /\ call' = [call EXCEPT
                   !.inp = Append(@, [helper |-> helper, was_done |-> call.done,
                                      before |-> Len(call.tr), after |-> Len(c.tr)]),
                   !.tr = c.tr, !.done = c.done, !.exc = c.exc]
    /\ UNCHANGED <<db_warnings, db_settings>>

ModerationDefer ==
    /\ call.phase = "open"
    /\ Len(call.inp) < MaxDefers
    /\ \E c \in defer([Ctx0 EXCEPT !.tr = call.tr, !.done = call.done]) :
          Deferred("Moderation._defer", c)

SetupDefer ==
    /\ call.phase = "open"
    /\ Len(call.inp) < MaxDefers
    /\ \E c \in setup_defer([Ctx0 EXCEPT !.tr = call.tr, !.done = call.done]) :
          Deferred("SetupCog._defer", c)

DeferClose ==
    /\ call.phase = "open"
    /\ call' = Idle
    /\ UNCHANGED <<db_warnings, db_settings>>

NextDefer ==
    \/ DeferOpen
    \/ ModerationDefer
    \/ SetupDefer
    \/ DeferClose

SpecDefer == Init /\ [][NextDefer]_vars

(***************************************************************************)
(* cog_load: the optional sync of the application commands, over every     *)
(* configuration of up to MaxSyncGuilds listed guild identifiers.          *)
(***************************************************************************)
MaxSyncGuilds == 3

GuildIds == {"g1", "g2"}

\* An entry of sync_guild_ids that int() does not take.
NotANumber == "x"

\* discord_cfg.get("sync_guild_ids"): absent, a value that is no list or
\* tuple, or a list.
SyncGuildIds ==
    {[k |-> "missing", v |-> <<>>], [k |-> "scalar", v |-> <<>>]}
    \cup {[k |-> "list", v |-> ids] :
            ids \in UNION {[1..n -> GuildIds \cup {NotANumber}] : n \in 0..MaxSyncGuilds}}

\* bot.config as cog_load reads it: whether it is a dict, whether its
\* "discord" section is one, the sync_app_commands flag and the identifiers.
LoadConfigs ==
    [config_is_dict : BOOLEAN, discord_is_dict : BOOLEAN, sync_app_commands : BOOLEAN,
     sync_guild_ids : SyncGuildIds]

\* for gid in guild_ids: await self.bot.tree.sync(guild=discord.Object(id=int(gid)))
RECURSIVE sync_each(_, _)
sync_each(c, ids) ==
    IF ids = <<>>
    THEN {c}
    ELSE IF Head(ids) = NotANumber
    THEN {Raise(c, "ValueError")}
    ELSE Bind(Platform(c, "tree.sync", Head(ids), 0, {"ok", "HTTPException"}),
              LAMBDA c1 : sync_each(c1, Tail(ids)))

cog_load(c, cfg) ==
    IF ~cfg.config_is_dict \/ ~cfg.discord_is_dict \/ ~cfg.sync_app_commands
    THEN {c}
    ELSE Try(IF cfg.sync_guild_ids.k = "list" /\ cfg.sync_guild_ids.v # <<>>
             THEN sync_each(c, cfg.sync_guild_ids.v)
             ELSE Platform(c, "tree.sync", "", 0, {"ok", "HTTPException"}),
             LAMBDA x : {Caught(x)})

CogLoad ==
    /\ call.phase = "idle"
    /\ \E cfg \in LoadConfigs :
          \E c \in cog_load(Ctx0, cfg) :
             call' = [phase |-> "finished", cmd |-> "cog_load", inp |-> cfg, cfg |-> NoCfg,
                      tr |-> c.tr, done |-> c.done, exc |-> c.exc]
    /\ UNCHANGED <<db_warnings, db_settings>>

NextLoad ==
    \/ CogLoad
    \/ Complete

SpecLoad == Init /\ [][NextLoad]_vars

(***************************************************************************)
(* The setup commands in several guilds: here db_settings holds one        *)
(* settings record for each guild.                                         *)
(***************************************************************************)
Guilds == {"G1", "G2"}

TextChannels == {"c1", "c2"}

GuildSetupInputs ==
    [ctx : Contexts, author : Moderators, channel : TextChannels, guild : Guilds]

NoSettings == [log_channel |-> NoChannel, welcome_channel |-> NoChannel]

InitSetup ==
    /\ db_warnings = <<>>
    /\ db_settings = [g \in Guilds |-> NoSettings]
    /\ call = Idle

\* The store after the handler's update_server_setting calls that succeeded.
Updated(settings, guild, tr) ==
    LET written == {k \in DOMAIN tr :
                      tr[k].op = "db.update_server_setting" /\ tr[k].res = "ok"}
    IN  IF written = {}
        THEN settings
        ELSE LET e == tr[CHOOSE k \in written : TRUE]
             IN  [settings EXCEPT ![guild][e.arg] = e.tgt]

GuildSetupLogchannel ==
    /\ call.phase = "idle"
    /\ \E i \in GuildSetupInputs :
         \E c \in DispatchSetup(Ctx0, LAMBDA c0 : setup_logchannel(c0, i)) :
            /\ Finished("setup logchannel", i, c)
            /\ db_settings' = Updated(db_settings, i.guild, c.tr)

GuildSetupWelcomechannel ==
    /\ call.phase = "idle"
    /\ \E i \in GuildSetupInputs :
         \E c \in DispatchSetup(Ctx0, LAMBDA c0 : setup_welcomechannel(c0, i)) :
            /\ Finished("setup welcomechannel", i, c)
            /\ db_settings' = Updated(db_settings, i.guild, c.tr)

GuildSetupConfig ==
    /\ call.phase = "idle"
    /\ \E i \in GuildSetupInputs :
         \E c \in DispatchSetup(Ctx0,
                     LAMBDA c0 : setup_config(c0, i, db_settings[i.guild])) :
            /\ Finished("setup config", i, c)
            /\ db_settings' = Updated(db_settings, i.guild, c.tr)

NextSetup ==
    \/ GuildSetupLogchannel
    \/ GuildSetupWelcomechannel
    \/ GuildSetupConfig
    \/ Complete

SpecSetup == InitSetup /\ [][NextSetup]_vars

(***************************************************************************)
(* The commands that post to the modlog, in a guild whose log channel is   *)
(* unset or is one of several channels.                                    *)
(***************************************************************************)
InitModlog ==
    /\ db_warnings = <<>>
    /\ db_settings \in {[log_channel |-> ch, welcome_channel |-> NoChannel]
                           : ch \in {NoChannel} \cup TextChannels}
    /\ call = Idle

NextModlog ==
    \/ Kick
    \/ Ban
    \/ BanResolve
    \/ Unban
    \/ Warn
    \/ Timeout
    \/ Untimeout
    \/ Complete

SpecModlog == InitModlog /\ [][NextModlog]_vars

(***************************************************************************)
(* Concurrent invocations.  Each moderator runs one invocation as a task;  *)
(* a task gives way at every await, so a step is one awaited call.  Here   *)
(* call holds the tasks and tr records the calls of all of them, each with *)
(* its task in `by`.  The store and the platform answer every call.        *)
(***************************************************************************)
Tasks == Moderators

\* The stores that MaxWarnings warns at most can have left, newest first.
Stores ==
    UNION {{[k \in 1..n |-> [id |-> n + 1 - k, member_id |-> f[k]]] : f \in [1..n -> Members]}
             : n \in 0..MaxWarnings}

Backends == [has_id : BOOLEAN, has_delete_warning : BOOLEAN, has_remove_warning : BOOLEAN]

\* The outcomes in which the call just made was answered.
Answered(S) == {c \in S : c.exc = "none" /\ c.tr[Len(c.tr)].res = "ok"}

\* The context in which task p makes its next call.
TaskCtx(p) == [Ctx0 EXCEPT !.tr = call.tr, !.done = call.tasks[p].done]

\* Task p has made the call that c records and goes on as `task`.
Stepped(p, c, task) ==
    /\ call' = [call EXCEPT !.tr = [c.tr EXCEPT ![Len(c.tr)].by = p],
                            !.tasks[p] = [task EXCEPT !.done = c.done]]
    /\ db_warnings' = c.warnings
    /\ UNCHANGED db_settings

InitUnwarnTasks ==
    /\ db_warnings \in Stores
    /\ db_settings = [log_channel |-> NoChannel, welcome_channel |-> NoChannel]
    /\ \E b \in Backends :
          call = [phase |-> "tasks", cmd |-> "unwarn", backend |-> b, before |-> db_warnings,
                  tasks |-> [p \in Tasks |-> [pc |-> "start", member |-> "", got |-> <<>>,
                                                n |-> 0, done |-> FALSE]], tr |-> <<>>]

\* Lines 433-436: in a guild, the defer.
UnwarnDefer(p) ==
    /\ call.tasks[p].pc = "start"
    /\ \E member \in Members : \E c \in Answered(defer(TaskCtx(p))) :
          Stepped(p, c, [call.tasks[p] EXCEPT !.pc = "read", !.member = member])

\* Line 438.
UnwarnGetWarnings(p) ==
    /\ call.tasks[p].pc = "read"
    /\ \E c \in Answered(get_warnings(TaskCtx(p), call.tasks[p].member, {"ok"})) :
          LET got == c.tr[Len(c.tr)].items
          IN  Stepped(p, c, [call.tasks[p] EXCEPT
                                !.pc = IF got = <<>> THEN "none" ELSE "remove",
                                !.got = got])

\* Lines 439-440.
UnwarnNoWarnings(p) ==
    /\ call.tasks[p].pc = "none"
    /\ \E c \in Answered(respond(TaskCtx(p), "unwarn_none", TRUE)) :
          Stepped(p, c, [call.tasks[p] EXCEPT !.pc = "done"])

\* Lines 442-455.
UnwarnRemove(p) ==
    /\ call.tasks[p].pc = "remove"
    /\ LET i == call.backend
           wid == call.tasks[p].got[1]
       IN  IF i.has_id /\ i.has_delete_warning
           THEN \E c \in Answered(delete_warning(TaskCtx(p), wid)) :
                   Stepped(p, c, [call.tasks[p] EXCEPT !.pc = "count"])
           ELSE IF i.has_remove_warning
           THEN \E c \in Answered(remove_warning(TaskCtx(p), call.tasks[p].member)) :
                   Stepped(p, c, [call.tasks[p] EXCEPT !.pc = "count"])
           ELSE \E c \in Answered(respond(TaskCtx(p), "unwarn_unsupported", TRUE)) :
                   Stepped(p, c, [call.tasks[p] EXCEPT !.pc = "done"])

\* Line 457.
UnwarnCount(p) ==
    /\ call.tasks[p].pc = "count"
    /\ \E c \in Answered(get_warning_count(TaskCtx(p), call.tasks[p].member)) :
          Stepped(p, c, [call.tasks[p] EXCEPT !.pc = "log", !.n = c.val])

\* Line 458.
UnwarnLog(p) ==
    /\ call.tasks[p].pc = "log"
    /\ \E c \in Answered(log_action(TaskCtx(p), "unwarn", call.tasks[p].member, p)) :
          Stepped(p, c, [call.tasks[p] EXCEPT !.pc = "respond"])

\* Line 459.
UnwarnRespond(p) ==
    /\ call.tasks[p].pc = "respond"
    /\ \E c \in Answered({[y EXCEPT !.tr[Len(y.tr)].n = call.tasks[p].n]
                              : y \in respond(TaskCtx(p), "unwarn_ok", TRUE)}) :
          Stepped(p, c, [call.tasks[p] EXCEPT !.pc = "done"])
NextUnwarnTasks ==
    \/ \E p \in Tasks : UnwarnDefer(p)
    \/ \E p \in Tasks : UnwarnGetWarnings(p)
    \/ \E p \in Tasks : UnwarnNoWarnings(p)
    \/ \E p \in Tasks : UnwarnRemove(p)
    \/ \E p \in Tasks : UnwarnCount(p)
    \/ \E p \in Tasks : UnwarnLog(p)
    \/ \E p \in Tasks : UnwarnRespond(p)

SpecUnwarnTasks == InitUnwarnTasks /\ [][NextUnwarnTasks]_vars

(***************************************************************************)
(* Concurrent warns of one member, one by each moderator.  Each task keeps *)
(* the record of its own calls.  The calls after the response (modlog, DM, *)
(* auto-action) touch nothing another task reads or writes and are taken  *)
(* as one step.  The configuration is the process's, read-only.            *)
(***************************************************************************)
WarnTaskInput(p) ==
    [ctx |-> [guild |-> TRUE, user_is_member |-> TRUE], author |-> p, member |-> "u2",
     author_role |-> MaxRole, member_role |-> 1]

WarnTaskCtx(p) ==
    [Ctx0 EXCEPT !.tr = call.tasks[p].tr, !.done = call.tasks[p].done,
                 !.val = call.tasks[p].n]

\* Task p has made the calls that c records and is now at pc.
WarnStepped(p, c, pc) ==
    /\ call' = [call EXCEPT !.tasks[p] = [pc |-> pc, n |-> c.val, done |-> c.done,
                                          tr |-> c.tr]]
    /\ db_warnings' = c.warnings
    /\ UNCHANGED db_settings

InitWarnTasks ==
    /\ db_warnings \in Stores
    /\ db_settings = [log_channel |-> NoChannel, welcome_channel |-> NoChannel]
    /\ \E cfg \in WarnCfgs :
          call = [phase |-> "tasks", cmd |-> "warn", cfg |-> cfg, before |-> db_warnings,
                  tasks |-> [p \in Tasks |-> [pc |-> "start", n |-> 0, done |-> FALSE,
                                                tr |-> <<>>]]]

\* Lines 212-220: the guards, which these invocations pass, and the defer.
WarnDefer(p) ==
    /\ call.tasks[p].pc = "start"
    /\ ~guild_guard(WarnTaskInput(p)) /\ ~hierarchy_blocked(WarnTaskInput(p))
    /\ \E c \in Answered(defer(WarnTaskCtx(p))) : WarnStepped(p, c, "add")

\* Line 222.
WarnAdd(p) ==
    /\ call.tasks[p].pc = "add"
    /\ \E c \in Answered(add_warning(WarnTaskCtx(p), WarnTaskInput(p).member, p)) :
          WarnStepped(p, c, "log")

\* Line 223.
WarnLog(p) ==
    /\ call.tasks[p].pc = "log"
    /\ \E c \in Answered(log_action(WarnTaskCtx(p), "warn", WarnTaskInput(p).member, p)) :
          WarnStepped(p, c, "count")

\* Line 225.
WarnCount(p) ==
    /\ call.tasks[p].pc = "count"
    /\ \E c \in Answered(get_warning_count(WarnTaskCtx(p), WarnTaskInput(p).member)) :
          WarnStepped(p, c, "respond")

\* Line 237.
WarnRespond(p) ==
    /\ call.tasks[p].pc = "respond"
    /\ \E c \in Answered({[y EXCEPT !.tr[Len(y.tr)].n = call.tasks[p].n]
                              : y \in respond(WarnTaskCtx(p), "warn_ok", FALSE)}) :
          WarnStepped(p, c, "after")

\* Lines 238-295, and the error handler on what they raise; the store
\* answers the settings read of the modlog.
WarnAfter(p) ==
    /\ call.tasks[p].pc = "after"
    /\ \E c \in Dispatch(WarnTaskCtx(p),
                 LAMBDA c0 : Bind(post_modlog(c0, "warn_ok"),
                 LAMBDA c1 : Bind(member_send(c1, WarnTaskInput(p).member),
                 LAMBDA c2 : warn_auto_action([c2 EXCEPT !.val = call.tasks[p].n],
                                              WarnTaskInput(p), call.cfg)))) :
          /\ \A k \in DOMAIN c.tr :
                c.tr[k].op = "db.get_server_settings" => c.tr[k].res = "ok"
          /\ WarnStepped(p, [c EXCEPT !.val = call.tasks[p].n], "done")
NextWarnTasks ==
    \/ \E p \in Tasks : WarnDefer(p)
    \/ \E p \in Tasks : WarnAdd(p)
    \/ \E p \in Tasks : WarnLog(p)
    \/ \E p \in Tasks : WarnCount(p)
    \/ \E p \in Tasks : WarnRespond(p)
    \/ \E p \in Tasks : WarnAfter(p)

SpecWarnTasks == InitWarnTasks /\ [][NextWarnTasks]_vars

(***************************************************************************)
(* ban while the guild changes: between the prompt and the resolution of   *)
(* view.wait() the handler is suspended and the top roles of the moderator *)
(* and of the target may be changed by others.  inp holds the roles as the *)
(* guild has them.                                                         *)
(***************************************************************************)
RolesChange ==
    /\ call.phase = "waiting"
    /\ \E a, t \in Roles :
          /\ <<a, t>> # <<call.inp.author_role, call.inp.member_role>>
          /\ call.inp.author = call.inp.member => a = t
          /\ call' = [call EXCEPT !.inp.author_role = a, !.inp.member_role = t]
    /\ UNCHANGED <<db_warnings, db_settings>>

NextBanWait ==
    \/ Ban
    \/ RolesChange
    \/ BanResolve
    \/ Complete

SpecBanWait == Init /\ [][NextBanWait]_vars

(***************************************************************************)
(* The unban command over every identifier string of up to MaxIdLen        *)
(* characters, typed by the guild owner in the guild.                      *)
(***************************************************************************)
MaxIdLen == 5
IdAlphabet == {"1", "2", "<", "@", "!", ">", " "}

AllIds == UNION {[1..n -> IdAlphabet] : n \in 0..MaxIdLen}

TypedUnbanInputs ==
    {[ctx |-> [guild |-> TRUE, user_is_member |-> TRUE], author |-> owner_id, user_id |-> s]
        : s \in AllIds}

InitUnban ==
    /\ db_warnings = <<>>
    /\ db_settings = [log_channel |-> NoChannel, welcome_channel |-> NoChannel]
    /\ call \in {[phase |-> "typed", inp |-> i] : i \in TypedUnbanInputs}

UnbanTyped ==
    /\ call.phase = "typed"
    /\ \E c \in Dispatch(Ctx0, LAMBDA c0 : unban(c0, call.inp)) :
          Finished("unban", call.inp, c)
    /\ UNCHANGED db_settings

NextUnban == UnbanTyped

SpecUnban == InitUnban /\ [][NextUnban]_vars

(***************************************************************************)
(* Properties.  `call` holds the interaction handled last: its command,    *)
(* its inputs, the configuration it read and the calls it made, in order.  *)
(***************************************************************************)
Handled == call.phase \in {"finished", "waiting"}

Sends == {"response.send_message", "followup.send"}

Calls(ops) == {k \in DOMAIN call.tr : call.tr[k].op \in ops}

\* The handler answered with one of `texts`, ephemerally, as its first call,
\* and every call it made is an ephemeral error message.
Rejected(texts) ==
    /\ call.tr # <<>>
    /\ call.tr[1].op = "response.send_message"
    /\ call.tr[1].arg \in texts
    /\ \A k \in DOMAIN call.tr :
          /\ call.tr[k].op \in Sends
          /\ call.tr[k].eph
          /\ call.tr[k].arg \in texts \cup {"error_text"}

HierarchyText(cmd) ==
    CASE cmd = "kick" -> "kick_hierarchy"
      [] cmd = "ban" -> "ban_hierarchy"
      [] cmd = "warn" -> "warn_hierarchy"
      [] cmd = "timeout" -> "timeout_hierarchy"

OwnerText(cmd) == IF cmd = "kick" THEN "kick_owner" ELSE "ban_owner"

\* C1: kick, ban, warn and timeout on a target whose top role is greater
\* than or equal to the moderator's, by a moderator who is not the guild
\* owner, reject with an ephemeral error and make no other call: no defer,
\* no prompt, no platform action, no warning record, no Action Log write.
C1_HierarchyGuard ==
    (/\ Handled
     /\ call.cmd \in {"kick", "ban", "warn", "timeout"}
     /\ call.inp.member_role >= call.inp.author_role
     /\ call.inp.author # owner_id)
    => Rejected({"guild_only", HierarchyText(call.cmd)}
                \cup (IF call.cmd \in {"kick", "ban"} THEN {OwnerText(call.cmd)} ELSE {}))

\* A warn on a target of equal rank was answered with the hierarchy error.
C1_Witness ==
    /\ Handled
    /\ call.cmd = "warn"
    /\ call.inp.ctx.user_is_member
    /\ call.inp.member_role = call.inp.author_role
    /\ call.inp.author # owner_id
    /\ call.tr = <<[Ev("response.send_message", "warn_hierarchy", "ok") EXCEPT !.eph = TRUE]>>

\* C2: kick and ban on the guild owner reject whatever the ranks, with no
\* platform action and no store write; warn and timeout have no owner
\* check, so on an owner ranked strictly below the moderator warn writes
\* the warning record and timeout issues the timeout.
C2_OwnerImmunity ==
    /\ (/\ Handled
         /\ call.cmd \in {"kick", "ban"}
         /\ call.inp.member = owner_id)
        => Rejected({"guild_only", OwnerText(call.cmd)})
    /\ (/\ Handled
         /\ call.cmd \in {"warn", "timeout"}
         /\ call.inp.ctx.user_is_member
         /\ call.inp.member = owner_id
         /\ call.inp.member_role < call.inp.author_role)
        => \E k \in DOMAIN call.tr :
              /\ call.tr[k].op = (IF call.cmd = "warn" THEN "db.add_warning" ELSE "member.timeout")
              /\ call.tr[k].tgt = owner_id

\* A kick on the owner, ranked strictly below the moderator, was rejected.
C2_Witness ==
    /\ Handled
    /\ call.cmd = "kick"
    /\ call.inp.ctx.user_is_member
    /\ call.inp.member = owner_id
    /\ call.inp.member_role < call.inp.author_role
    /\ call.tr = <<[Ev("response.send_message", "kick_owner", "ok") EXCEPT !.eph = TRUE]>>

\* A ban whose confirmation has resolved.
BanResolved == call.phase = "finished" /\ call.cmd = "ban" /\ "value" \in DOMAIN call.inp

BanCalls == Calls({"member.ban"})

BanLogWrites == {k \in Calls({"db.log_action"}) : call.tr[k].arg = "ban"}

\* C3: a ban that passed its guards issues no ban call and no Action Log
\* write when the confirmation is declined or times out; when it is
\* accepted it issues exactly one ban call, and exactly one Action Log
\* write "ban" if that call succeeds and none if the platform refuses it.
C3_BanConfirmation ==
    BanResolved =>
        IF call.inp.value = "accepted"
        THEN /\ Cardinality(BanCalls) = 1
             /\ \A k \in BanCalls :
                   IF call.tr[k].res = "ok"
                   THEN /\ Cardinality(BanLogWrites) = 1
                        /\ \A j \in BanLogWrites : j = k + 1
                   ELSE Calls({"db.log_action"}) = {}
        ELSE BanCalls = {} /\ Calls({"db.log_action"}) = {}

\* An accepted ban went through and was logged.
C3_Witness ==
    /\ BanResolved
    /\ call.inp.value = "accepted"
    /\ \E k \in BanCalls : call.tr[k].res = "ok" /\ call.tr[k + 1].res = "ok"
    /\ Cardinality(BanLogWrites) = 1

\* C3 as stated: an accepted confirmation always gives one ban call and
\* one Action Log write "ban".
C3_AsStated ==
    BanResolved =>
        IF call.inp.value = "accepted"
        THEN Cardinality(BanCalls) = 1 /\ Cardinality(BanLogWrites) = 1
        ELSE BanCalls = {} /\ Calls({"db.log_action"}) = {}

\* A warn that got to the threshold evaluation (lines 251-265).
WarnEvaluated == call.phase = "finished" /\ call.cmd = "warn" /\ call.cfg.read

ConfiguredThreshold ==
    IF call.cfg.is_dict /\ call.cfg.warn_threshold.k = "int"
    THEN call.cfg.warn_threshold.v ELSE 0

ConfiguredAutoOp ==
    CASE ~call.cfg.is_dict -> "none"
      [] call.cfg.warn_threshold_action = "timeout" -> "member.timeout"
      [] call.cfg.warn_threshold_action = "KICK" -> "member.kick"
      [] call.cfg.warn_threshold_action = "ban" -> "member.ban"
      [] OTHER -> "none"

AutoOps == {"member.timeout", "member.kick", "member.ban"}

\* The count the warn read after writing the new warning.
CountRead == call.tr[CHOOSE k \in Calls({"db.get_warning_count"}) : TRUE].n

\* C4: with warn_threshold = T > 0 and an action among timeout, kick, ban,
\* a warn attempts exactly one auto-action of the configured kind when the
\* count it read is >= T and none when it is < T; with T <= 0, action
\* "none" or any other action value it attempts none.
C4_AsStated ==
    WarnEvaluated =>
        IF ConfiguredThreshold > 0 /\ ConfiguredAutoOp # "none"
           /\ CountRead >= ConfiguredThreshold
        THEN /\ Cardinality(Calls(AutoOps)) = 1
             /\ Calls({ConfiguredAutoOp}) = Calls(AutoOps)
        ELSE Calls(AutoOps) = {}

ActionOps ==
    {"member.kick", "member.ban", "guild.unban", "member.timeout", "member.timeout(None)",
     "channel.purge"}

ActionOf(op) ==
    CASE op = "member.kick" -> "kick"
      [] op = "member.ban" -> "ban"
      [] op = "guild.unban" -> "unban"
      [] op = "member.timeout" -> "timeout"
      [] op = "member.timeout(None)" -> "untimeout"
      [] op = "channel.purge" -> "purge"

\* C5: every kick, ban, unban, timeout, untimeout and purge that succeeds
\* on the platform, requested by a command or done as a warn auto-action,
\* and every warning recorded, is followed by an Action Log write for that
\* action, whatever happens to the later response, modlog post or DM.
C5_AsStated ==
    Handled =>
        /\ \A k \in Calls(ActionOps) :
              call.tr[k].res = "ok" =>
                \E j \in Calls({"db.log_action"}) :
                    j > k /\ call.tr[j].arg = ActionOf(call.tr[k].op)
        /\ \A k \in Calls({"db.add_warning"}) :
              call.tr[k].res = "ok" =>
                \E j \in Calls({"db.log_action"}) : j > k /\ call.tr[j].arg = "warn"

ModlogOps == {"db.get_server_settings", "guild.get_channel", "channel.send"}

CommandOp(cmd) ==
    CASE cmd = "kick" -> "member.kick"
      [] cmd = "ban" -> "member.ban"
      [] cmd = "unban" -> "guild.unban"
      [] cmd = "timeout" -> "member.timeout"
      [] cmd = "untimeout" -> "member.timeout(None)"
      [] cmd = "purge" -> "channel.purge"

\* C6: when the platform action of kick, ban, unban, timeout, untimeout or
\* purge fails for lack of permission or with an API error, the handler
\* issues it only once, writes no Action Log Entry, does nothing of the
\* modlog step, and its next call is one ephemeral error whose text is
\* the command's permission error or the command's API error according
\* to the failure; nothing follows but the error handler's own ephemeral
\* message when that error could not be sent.
C6_PlatformFailure ==
    (Handled /\ call.cmd \in {"kick", "ban", "unban", "timeout", "untimeout", "purge"}) =>
        \A k \in Calls({CommandOp(call.cmd)}) :
            call.tr[k].res \in {"Forbidden", "HTTPException"} =>
                /\ Calls({CommandOp(call.cmd)}) = {k}
                /\ Calls({"db.log_action"} \cup ModlogOps) = {}
                /\ k + 1 \in DOMAIN call.tr
                /\ call.tr[k + 1].op \in Sends \cup {"message.edit"}
                /\ call.tr[k + 1].eph
                /\ call.tr[k + 1].arg =
                      call.cmd \o (IF call.tr[k].res = "Forbidden" THEN "_forbidden" ELSE "_http")
                /\ IF call.tr[k + 1].res = "ok"
                   THEN Len(call.tr) = k + 1
                   ELSE /\ Len(call.tr) = k + 2
                        /\ call.tr[k + 2].op \in Sends
                        /\ call.tr[k + 2].eph
                        /\ call.tr[k + 2].arg = "error_text"

\* A kick refused for lack of permission, and the moderator told so.
C6_Witness ==
    /\ Handled
    /\ call.cmd = "kick"
    /\ \E k \in Calls({"member.kick"}) :
          /\ call.tr[k].res = "Forbidden"
          /\ Len(call.tr) = k + 1
          /\ call.tr[k + 1].arg = "kick_forbidden"
          /\ call.tr[k + 1].res = "ok"

\* C7: a failure in the modlog step (reading the settings, resolving the
\* channel, sending the embed) of kick, ban, unban, warn, timeout or
\* untimeout does not raise out of the command and is not followed by an
\* error message to the user.
C7_AsStated ==
    (Handled /\ call.cmd \in {"kick", "ban", "unban", "warn", "timeout", "untimeout"}) =>
        \A k \in Calls(ModlogOps) :
            call.tr[k].res \in {"fail", "None"} =>
                ~(k + 1 \in DOMAIN call.tr /\ call.tr[k + 1].arg = "error_text")

\* C8: in warn, when the direct message to the target fails, the warning
\* record, the Action Log write "warn" and the public response have been
\* made, the threshold is evaluated next, and the next call, if any, is
\* the auto-action and not an error message (but for the error a missing
\* or malformed timeout duration raises at the auto-action itself).
C8_DmFailure ==
    (Handled /\ call.cmd = "warn") =>
        \A k \in Calls({"member.send"}) :
            call.tr[k].res = "fail" =>
                /\ \E j \in Calls({"db.add_warning"}) : j < k /\ call.tr[j].res = "ok"
                /\ db_warnings # <<>> /\ db_warnings[1].member_id = call.inp.member
                /\ \E j \in Calls({"db.log_action"}) :
                      j < k /\ call.tr[j].res = "ok" /\ call.tr[j].arg = "warn"
                /\ \E j \in Calls(Sends) :
                      /\ j < k
                      /\ call.tr[j].res = "ok"
                      /\ call.tr[j].arg = "warn_ok"
                      /\ ~call.tr[j].eph
                /\ call.cfg.read
                /\ k + 1 \in DOMAIN call.tr =>
                      \/ call.tr[k + 1].op \in AutoOps
                      \/ call.cfg.warn_threshold_timeout_duration.k \in {"missing", "malformed"}

\* The direct message failed and the auto-kick was issued after it.
C8_Witness ==
    /\ Handled
    /\ call.cmd = "warn"
    /\ \E k \in Calls({"member.send"}) :
          /\ call.tr[k].res = "fail"
          /\ k + 1 \in DOMAIN call.tr
          /\ call.tr[k + 1].op = "member.kick"
          /\ call.tr[k + 1].res = "ok"

\* A purge in a guild: the cap it was held to.
PurgeChecked == Handled /\ call.cmd = "purge" /\ call.cfg.read

ConfiguredMax ==
    IF call.cfg.is_dict /\ call.cfg.max_purge_amount.k = "int"
    THEN call.cfg.max_purge_amount.v ELSE DefaultMaxPurge

\* C9: with M the configured max_purge_amount (100 when missing or
\* malformed), a purge of a > M is rejected with an error naming M and
\* makes no defer, no deletion call and no Action Log write; a purge of
\* a <= M defers first, and issues the bulk delete, once and with limit a,
\* when the defer succeeded and the channel can hold messages, and does
\* not issue it otherwise.
C9_PurgeCap ==
    PurgeChecked =>
        IF call.inp.amount > ConfiguredMax
        THEN /\ Rejected({"purge_max"})
             /\ call.tr[1].n = ConfiguredMax
        ELSE /\ call.tr[1].op = "response.defer"
             /\ \A k \in Calls({"channel.purge"}) : k = 2 /\ call.tr[k].n = call.inp.amount
             /\ (call.tr[1].res = "ok" /\ call.inp.channel_has_purge)
                    <=> Calls({"channel.purge"}) # {}

\* A purge of 51 under a configured cap of 50 was rejected naming 50.
C9_Witness ==
    /\ PurgeChecked
    /\ call.inp.amount = 51
    /\ ConfiguredMax = 50
    /\ Len(call.tr) = 1
    /\ call.tr[1].arg = "purge_max"
    /\ call.tr[1].n = 50
    /\ call.tr[1].res = "ok"

\* C9 as stated: a purge of a <= M always gets to the bulk delete with limit a.
C9_AsStated ==
    PurgeChecked =>
        IF call.inp.amount > ConfiguredMax
        THEN Rejected({"purge_max"}) /\ call.tr[1].n = ConfiguredMax
        ELSE \E k \in Calls({"channel.purge"}) : call.tr[k].n = call.inp.amount

\* An unban handled in the guild, and what was typed, trimmed.
UnbanHandled == Handled /\ call.cmd = "unban" /\ call.inp.ctx.user_is_member

Trimmed == strip(call.inp.user_id)

DigitsOf(s) == SelectSeq(s, LAMBDA ch : ch \in Digits)

\* d, <@d> and <@!d>
MentionForms(d) ==
    {d, <<"<", "@">> \o d \o <<">">>, <<"<", "@", "!">> \o d \o <<">">>}

\* Digits, ">", "!" and "<@" in any number and order.
RECURSIVE Decorated(_)
Decorated(s) ==
    \/ s = <<>>
    \/ Head(s) \in Digits \cup {">", "!"} /\ Decorated(Tail(s))
    \/ Len(s) >= 2 /\ s[1] = "<" /\ s[2] = "@" /\ Decorated(SubSeq(s, 3, Len(s)))

\* The handler went on to fetch user `uid` and asked to unban no other.
ResolvedTo(uid) ==
    /\ call.tr[1].op = "response.defer"
    /\ Calls({"bot.fetch_user"}) = {2}
    /\ call.tr[2].n = uid
    /\ \A k \in Calls({"guild.unban"}) : call.tr[k].n = uid

Held(ws, member_id) == Len(WarningsOf(ws, member_id))

\* A warn step: it adds one record for its member when its add_warning
\* call succeeded, and the total it reports is the count so reached.
WarnCounts ==
    (call.phase = "idle" /\ call'.phase = "finished" /\ call'.cmd = "warn") =>
        LET m == call'.inp.member
            added == \E k \in DOMAIN call'.tr :
                        call'.tr[k].op = "db.add_warning" /\ call'.tr[k].res = "ok"
        IN  /\ Held(db_warnings', m) = Held(db_warnings, m) + (IF added THEN 1 ELSE 0)
            /\ \A k \in DOMAIN call'.tr :
                  call'.tr[k].arg = "warn_ok" => call'.tr[k].n = Held(db_warnings, m) + 1

\* A warnings command the store answered: the list it shows.
WarningsShown ==
    (/\ call.phase = "finished"
     /\ call.cmd = "warnings"
     /\ \E k \in Calls({"db.get_warnings"}) : call.tr[k].res = "ok")
    => LET held == WarningsOf(db_warnings, call.inp.member)
           N == Len(held)
           shown == call.tr[1 + CHOOSE k \in Calls({"db.get_warnings"}) : TRUE]
       IN  /\ shown.op \in Sends
           /\ shown.eph
           /\ IF N = 0
              THEN shown.arg = "no_warnings"
              ELSE /\ shown.arg = "warnings_list"
                   /\ shown.n = N
                   /\ Len(shown.items) = (IF N < 10 THEN N ELSE 10)
                   /\ \A j \in DOMAIN shown.items : shown.items[j] = held[j].id

\* C11: every successful warn of a member adds exactly one to the store's
\* count for that member and reports the count so reached, so that after N
\* of them in a row the count is N and the k-th reported k; the warnings
\* command then shows total N and lists the first min(N, 10) records,
\* numbered from 1, in the store's order.
C11_WarnHistory == [][WarnCounts]_vars /\ []WarningsShown

\* Eleven warnings are held and the list shows ten of them.
C11_Witness ==
    /\ call.phase = "finished"
    /\ call.cmd = "warnings"
    /\ Held(db_warnings, call.inp.member) = 11
    /\ call.tr[Len(call.tr)].arg = "warnings_list"
    /\ call.tr[Len(call.tr)].res = "ok"
    /\ call.tr[Len(call.tr)].n = 11
    /\ Len(call.tr[Len(call.tr)].items) = 10

\* A clearwarnings step whose store call answered in time: the member holds
\* no warning afterwards, the count reported is the number held before, and
\* the other members' records are as they were.
ClearwarningsClears ==
    (/\ call.phase = "idle" /\ call'.phase = "finished" /\ call'.cmd = "clearwarnings"
     /\ \E k \in DOMAIN call'.tr :
           call'.tr[k].op = "db.clear_warnings" /\ call'.tr[k].res = "ok")
    => LET m == call'.inp.member
       IN  /\ Held(db_warnings', m) = 0
           /\ \A k \in DOMAIN call'.tr :
                  call'.tr[k].arg = "clearwarnings_ok"
                      => call'.tr[k].n = Held(db_warnings, m) /\ call'.tr[k].eph
           /\ \E k \in DOMAIN call'.tr : call'.tr[k].arg = "clearwarnings_ok"
           /\ \A o \in Members \ {m} :
                  WarningsOf(db_warnings', o) = WarningsOf(db_warnings, o)

\* Only a warn of a member adds to the warnings the member holds.
OnlyWarnAdds ==
    \A m \in Members :
        Held(db_warnings', m) > Held(db_warnings, m)
            => call'.cmd = "warn" /\ call'.inp.member = m

\* A warnings command on a member who holds no warning, answered by the
\* store: the plain notice, and no list.
NoWarningsNotice ==
    (/\ call.phase = "finished"
     /\ call.cmd = "warnings"
     /\ Held(db_warnings, call.inp.member) = 0)
    => \A k \in Calls({"db.get_warnings"}) :
          call.tr[k].res = "ok"
              => /\ call.tr[k + 1].op \in Sends
                 /\ call.tr[k + 1].arg = "no_warnings"
                 /\ call.tr[k + 1].eph
                 /\ \A j \in DOMAIN call.tr : call.tr[j].arg # "warnings_list"

\* C12: a clearwarnings that completes without timeout leaves the member
\* with a warning count of 0 and reports the number of warnings held
\* before; until the member is warned again the count stays 0 and a
\* warnings command answers with the plain "no warnings" notice; the
\* warnings of other members are unchanged.
C12_ClearWarnings ==
    [][ClearwarningsClears /\ OnlyWarnAdds]_vars /\ []NoWarningsNotice

\* The warnings of a member were cleared while another member keeps one.
C12_Witness ==
    /\ call.phase = "finished"
    /\ call.cmd = "clearwarnings"
    /\ \E k \in DOMAIN call.tr :
          /\ call.tr[k].arg = "clearwarnings_ok"
          /\ call.tr[k].res = "ok"
          /\ call.tr[k].n >= 1
    /\ Held(db_warnings, call.inp.member) = 0
    /\ \E o \in Members : Held(db_warnings, o) >= 1

\* The unwarn step just taken, once the store has answered its read.
UnwarnRead ==
    /\ call.phase = "idle" /\ call'.phase = "finished" /\ call'.cmd = "unwarn"
    /\ \E k \in DOMAIN call'.tr :
          call'.tr[k].op = "db.get_warnings" /\ call'.tr[k].res = "ok"

UnwarnStoreOps ==
    {"db.get_warnings", "db.delete_warning", "db.remove_warning",
     "db.get_warning_count", "db.log_action"}

\* Only the coarse capability, at least one warning: remove_warning is
\* called, and when it answers the member holds one warning less; when
\* every store call answers, the "unwarn" entry is written and the success
\* message tells the new count.
UnwarnCoarse ==
    (/\ UnwarnRead
     /\ ~call'.inp.has_delete_warning /\ call'.inp.has_remove_warning
     /\ Held(db_warnings, call'.inp.member) >= 1)
    => LET m == call'.inp.member
           tr == call'.tr
           r == CHOOSE k \in DOMAIN tr : tr[k].op = "db.get_warnings"
           storeOk == \A k \in DOMAIN tr : tr[k].op \in UnwarnStoreOps => tr[k].res = "ok"
       IN  /\ tr[r + 1].op = "db.remove_warning" /\ tr[r + 1].tgt = m
           /\ \A k \in DOMAIN tr : tr[k].op # "db.delete_warning"
           /\ Held(db_warnings', m)
                 = Held(db_warnings, m) - (IF tr[r + 1].res = "ok" THEN 1 ELSE 0)
           /\ \A o \in Members \ {m} :
                  WarningsOf(db_warnings', o) = WarningsOf(db_warnings, o)
           /\ storeOk =>
                 /\ \E k \in DOMAIN tr :
                       /\ tr[k].op = "db.log_action" /\ tr[k].arg = "unwarn"
                       /\ tr[k].tgt = m /\ tr[k].by = call'.inp.author
                       /\ tr[k + 1].op \in Sends /\ tr[k + 1].arg = "unwarn_ok"
                       /\ tr[k + 1].eph
                       /\ tr[k + 1].n = Held(db_warnings, m) - 1

\* Neither capability, at least one warning: the not-supported error, no
\* deletion, no entry.
UnwarnUnsupported ==
    (/\ UnwarnRead
     /\ ~call'.inp.has_delete_warning /\ ~call'.inp.has_remove_warning
     /\ Held(db_warnings, call'.inp.member) >= 1)
    => LET tr == call'.tr
           r == CHOOSE k \in DOMAIN tr : tr[k].op = "db.get_warnings"
       IN  /\ tr[r + 1].op \in Sends /\ tr[r + 1].arg = "unwarn_unsupported"
           /\ tr[r + 1].eph
           /\ db_warnings' = db_warnings
           /\ \A k \in DOMAIN tr :
                  tr[k].op \notin {"db.log_action", "db.delete_warning", "db.remove_warning"}

\* No warning: an error, no deletion, no entry.
UnwarnNone ==
    (UnwarnRead /\ Held(db_warnings, call'.inp.member) = 0)
    => LET tr == call'.tr
           r == CHOOSE k \in DOMAIN tr : tr[k].op = "db.get_warnings"
       IN  /\ tr[r + 1].op \in Sends /\ tr[r + 1].arg = "unwarn_none"
           /\ tr[r + 1].eph
           /\ db_warnings' = db_warnings
           /\ \A k \in DOMAIN tr :
                  tr[k].op \notin {"db.log_action", "db.delete_warning", "db.remove_warning"}

\* C13: for a member with at least one warning, a store that exposes only
\* remove_warning has unwarn call it, the member's count goes down by
\* exactly 1 and, the store answering, the Action Log Entry "unwarn" is
\* written and success reported; a store that exposes neither deletion has
\* unwarn report the not-supported error with the count unchanged and no
\* entry written; for a member with no warnings unwarn reports an error and
\* changes nothing.
C13_Unwarn == [][UnwarnCoarse /\ UnwarnUnsupported /\ UnwarnNone]_vars

\* The coarse removal took one of two warnings and was logged and reported.
C13_Witness ==
    /\ call.phase = "finished"
    /\ call.cmd = "unwarn"
    /\ ~call.inp.has_delete_warning /\ call.inp.has_remove_warning
    /\ Held(db_warnings, call.inp.member) = 1
    /\ \E k \in Calls({"db.remove_warning"}) : call.tr[k].res = "ok"
    /\ \E k \in Calls({"db.log_action"}) :
          call.tr[k].arg = "unwarn" /\ call.tr[k].res = "ok"
    /\ \E k \in DOMAIN call.tr :
          call.tr[k].arg = "unwarn_ok" /\ call.tr[k].res = "ok" /\ call.tr[k].n = 1

\* The initial responses the interaction has received.
Acknowledgments ==
    {k \in DOMAIN call.tr :
        /\ call.tr[k].op \in {"response.defer", "response.send_message"}
        /\ call.tr[k].res = "ok"}

\* C14: calling a deferral helper, of either cog, any number of times in
\* sequence on one interaction never raises and leaves the interaction with
\* at most one acknowledgment; a call on an interaction that has its initial
\* response is a no-op, and a call on one that has none (none was made, or
\* every earlier attempt failed) makes one ephemeral deferral attempt.
C14_Deferral ==
    call.phase = "open" =>
        /\ call.exc = "none"
        /\ Cardinality(Acknowledgments) <= 1
        /\ \A j \in DOMAIN call.inp :
              LET d == call.inp[j]
              IN  IF d.was_done
                  THEN d.after = d.before
                  ELSE /\ d.after = d.before + 1
                       /\ call.tr[d.after].op = "response.defer"
                       /\ call.tr[d.after].eph

\* The first call failed and was swallowed, the second acknowledged, the
\* third did nothing.
C14_Witness ==
    /\ call.phase = "open"
    /\ Len(call.inp) = 3
    /\ call.inp[1].helper # call.inp[2].helper
    /\ ~call.inp[1].was_done /\ call.tr[call.inp[1].after].res = "fail"
    /\ ~call.inp[2].was_done /\ call.tr[call.inp[2].after].res = "ok"
    /\ call.inp[3].was_done /\ call.inp[3].after = call.inp[3].before

\* C14 as stated: two calls in sequence leave exactly one acknowledgment,
\* and the second call is a no-op.
C14_AsStated ==
    (call.phase = "open" /\ Len(call.inp) >= 2) =>
        /\ call.exc = "none"
        /\ Cardinality(Acknowledgments) = 1
        /\ call.inp[2].after = call.inp[2].before

InitialResponses == {"response.defer", "response.send_message"}

\* The interaction has its initial response before the k-th recorded call.
RespondedBefore(k) ==
    \E j \in 1..(k - 1) : call.tr[j].op \in InitialResponses /\ call.tr[j].res = "ok"

\* C15 as stated: on every path of every command, error handlers and failed
\* deferrals included, an initial response (send or defer) is issued only
\* on an interaction that has none yet, and a follow-up message only on an
\* interaction that has one.
C15_AsStated ==
    call.phase \in {"finished", "waiting"} =>
        \A k \in DOMAIN call.tr :
            /\ call.tr[k].op \in InitialResponses => ~RespondedBefore(k)
            /\ call.tr[k].op = "followup.send" => RespondedBefore(k)

\* C16 as stated: every command invoked outside a guild, or by an identity
\* that is not resolved as a guild member, rejects with the explicit
\* ephemeral message and performs no platform action and no store read or
\* write: its calls are the rejection and nothing but ephemeral sends.
C16_AsStated ==
    (/\ call.phase \in {"finished", "waiting"}
     /\ call.cmd # "denied"
     /\ guild_guard(call.inp))
    => /\ call.tr # <<>>
       /\ call.tr[1].arg = "guild_only"
       /\ \A k \in DOMAIN call.tr : call.tr[k].op \in Sends /\ call.tr[k].eph

OrderedCommands == {"kick", "ban", "unban", "warn", "timeout", "untimeout", "purge"}

\* The invocation fails a guard of its command.
GuardFails ==
    IF call.cmd = "purge"
    THEN ~call.inp.ctx.guild
    ELSE \/ guild_guard(call.inp)
         \/ call.cmd \in {"kick", "ban"} /\ is_guild_owner(call.inp)
         \/ call.cmd \in {"kick", "ban", "warn", "timeout"} /\ hierarchy_blocked(call.inp)

Defers == Calls({"response.defer"})

\* The command's own platform action; warn has none.
OwnActions == IF call.cmd = "warn" THEN {} ELSE Calls({CommandOp(call.cmd)})

\* The platform action warn takes at the threshold.
AutoActions == IF call.cmd = "warn" THEN Calls(ActionOps) ELSE {}

LogWrites ==
    {k \in Calls({"db.log_action"}) : call.tr[k].arg = call.cmd}

\* The success response: a send, or for ban the edit of the prompt.
Answers ==
    {k \in Calls(Sends \cup {"message.edit"}) : call.tr[k].arg = call.cmd \o "_ok"}

BestEffort == Calls(ModlogOps \cup {"member.send"})

Before(S, T) == \A j \in S : \A k \in T : j < k

After(S, T) ==
    \A k \in S : \E j \in T : j < k /\ call.tr[j].res = "ok"

BanOutcomeText ==
    IF call.inp.value # "accepted"
    THEN "ban_cancelled"
    ELSE LET b == CHOOSE k \in Calls({"member.ban"}) : TRUE
         IN  CASE call.tr[b].res = "ok" -> "ban_ok"
               [] call.tr[b].res = "Forbidden" -> "ban_forbidden"
               [] call.tr[b].res = "HTTPException" -> "ban_http"

\* The ban was issued and its Action Log write failed: the outcome is then
\* the store's error.
BanLogFailed ==
    \E k \in Calls({"db.log_action"}) : call.tr[k].res # "ok"

\* C18 as stated: whatever a ban that reached the confirmation prompt came
\* to (declined, timed out, banned, permission failure, API failure), the
\* moderator is told: by an edit of the prompt when the prompt was
\* retrieved, by a fresh ephemeral response when it was not.
C18_AsStated ==
    (BanResolved /\ ~BanLogFailed) =>
        LET o == CHOOSE k \in Calls({"original_response"}) : TRUE
        IN  \E k \in DOMAIN call.tr :
               /\ k > o
               /\ call.tr[k].arg = BanOutcomeText
               /\ call.tr[k].eph
               /\ IF call.tr[o].res = "ok"
                  THEN call.tr[k].op = "message.edit"
                  ELSE call.tr[k].op \in Sends

\* The configuration holds a value the auto-action cannot use: the
\* moderation section is not a dictionary, warn_threshold is missing or not
\* an integer, or the timeout duration that was read is.
UnusableConfig ==
    \/ ~call.cfg.is_dict
    \/ call.cfg.warn_threshold.k # "int"
    \/ call.cfg.warn_threshold_timeout_duration.k \in {"missing", "malformed"}

\* C19 as stated: whatever the moderation configuration holds, a warn that
\* comes to read it has recorded and answered the warning and completes
\* without an error, and values that cannot be used disable the
\* auto-action: none is attempted.
C19_AsStated ==
    WarnEvaluated =>
        /\ \E k \in Calls({"db.add_warning"}) : call.tr[k].res = "ok"
        /\ \E k \in Calls(Sends) : call.tr[k].arg = "warn_ok" /\ call.tr[k].res = "ok"
        /\ UnusableConfig =>
              /\ Calls(AutoOps) = {}
              /\ call.exc = "none"
              /\ \A k \in DOMAIN call.tr : call.tr[k].arg # "error_text"

\* The store call warnings and clearwarnings make through _db_call.
BoundedOp == IF call.cmd = "warnings" THEN "db.get_warnings" ELSE "db.clear_warnings"

ResultTexts ==
    IF call.cmd = "warnings" THEN {"warnings_list", "no_warnings"} ELSE {"clearwarnings_ok"}

TimeoutText == call.cmd \o "_timeout"

\* C20: an invocation of warnings or of clearwarnings makes its store call
\* at most once and ends with one response: the result when the store
\* answered within the bound, and when it did not, the ephemeral timed-out
\* error, with no list and no cleared count shown; the handler does not go
\* on waiting for the store.  No second response is sent but the error
\* handler's, when the first could not be sent.
C20_BoundedStoreCall ==
    (Handled /\ call.cmd \in {"warnings", "clearwarnings"}) =>
        /\ Cardinality(Calls({BoundedOp})) <= 1
        /\ \A k \in Calls({BoundedOp}) :
              /\ call.tr[k].res = "slow" =>
                    /\ k + 1 \in Calls(Sends)
                    /\ call.tr[k + 1].arg = TimeoutText
                    /\ call.tr[k + 1].eph
                    /\ \A j \in DOMAIN call.tr : call.tr[j].arg \notin ResultTexts
              /\ call.tr[k].res = "ok" =>
                    /\ k + 1 \in Calls(Sends)
                    /\ call.tr[k + 1].arg \in ResultTexts
                    /\ \A j \in DOMAIN call.tr : call.tr[j].arg # TimeoutText
        /\ Len(call.tr) \in Calls(Sends)
        /\ Cardinality(Calls(Sends)) \in {1, 2}
        /\ \A k \in Calls(Sends) :
              k < Len(call.tr) =>
                  call.tr[k].res = "fail" /\ call.tr[Len(call.tr)].arg = "error_text"

\* The store did not answer a clearwarnings in time and the timed-out error
\* was shown.
C20_Witness ==
    /\ call.phase = "finished"
    /\ call.cmd = "clearwarnings"
    /\ \E k \in Calls({"db.clear_warnings"}) :
          /\ call.tr[k].res = "slow"
          /\ call.tr[k + 1].arg = "clearwarnings_timeout"
          /\ call.tr[k + 1].res = "ok"
    /\ Cardinality(Calls(Sends)) = 1

Loaded == call.phase = "finished" /\ call.cmd = "cog_load"

SyncEnabled ==
    call.inp.config_is_dict /\ call.inp.discord_is_dict /\ call.inp.sync_app_commands

SyncCalls == Calls({"tree.sync"})

GlobalSyncs == {k \in SyncCalls : call.tr[k].tgt = ""}

Listed == call.inp.sync_guild_ids.v

\* C21 as stated: cog_load never raises; with sync disabled it makes no
\* sync call; with sync enabled and a non-empty list of identifiers it
\* syncs once for each listed guild and never globally, a failed sync or an
\* identifier that is no number being passed over; with sync enabled and no
\* identifier it makes exactly one global sync.
C21_AsStated ==
    Loaded =>
        /\ call.exc = "none"
        /\ ~SyncEnabled => SyncCalls = {}
        /\ (SyncEnabled /\ Listed # <<>>) =>
              /\ GlobalSyncs = {}
              /\ \A g \in GuildIds :
                    Cardinality({k \in SyncCalls : call.tr[k].tgt = g})
                        = Cardinality({j \in DOMAIN Listed : Listed[j] = g})
        /\ (SyncEnabled /\ Listed = <<>> /\ call.inp.sync_guild_ids.k # "scalar") =>
              SyncCalls = GlobalSyncs /\ Cardinality(GlobalSyncs) = 1

\* The setup step just taken wrote to the store.
SetupWrote ==
    \E k \in DOMAIN call'.tr :
        call'.tr[k].op = "db.update_server_setting" /\ call'.tr[k].res = "ok"

SetupField(cmd) ==
    IF cmd = "setup logchannel" THEN "log_channel" ELSE "welcome_channel"

\* A setup logchannel or setup welcomechannel step: its own field of its
\* guild's record becomes the channel it was given when the store took the
\* write and stays as it was otherwise; nothing else changes.
SetupSetsOwnField ==
    (/\ call.phase = "idle" /\ call'.phase = "finished"
     /\ call'.cmd \in {"setup logchannel", "setup welcomechannel"})
    => LET g == call'.inp.guild
           f == SetupField(call'.cmd)
       IN  /\ db_settings'[g][f] = IF SetupWrote THEN call'.inp.channel ELSE db_settings[g][f]
           /\ \A h \in Guilds : \A e \in {"log_channel", "welcome_channel"} :
                  (h # g \/ e # f) => db_settings'[h][e] = db_settings[h][e]
           /\ call'.inp.ctx.guild /\ ~SetupWrote =>
                  \E k \in DOMAIN call'.tr :
                      call'.tr[k].op = "db.update_server_setting" /\ call'.tr[k].res = "fail"

\* The steps that are no such command, setup config among them, write
\* nothing.
OthersWriteNothing ==
    call'.cmd \notin {"setup logchannel", "setup welcomechannel"}
        => db_settings' = db_settings

\* No field of a settings record is ever unset.
NeverUnset ==
    \A g \in Guilds : \A f \in {"log_channel", "welcome_channel"} :
        db_settings[g][f] # NoChannel => db_settings'[g][f] # NoChannel

\* C22: every setup logchannel (setup welcomechannel) the store accepts sets
\* the log_channel (welcome_channel) of the invoking guild to its channel,
\* and nothing else changes that field, so that after any sequence of them
\* each field holds the channel of the most recent one; each command leaves
\* the other field and every other guild's settings unchanged, no settings
\* are ever removed, and setup config performs no write.
C22_Settings ==
    [][SetupSetsOwnField /\ (call' # Idle => OthersWriteNothing) /\ NeverUnset]_vars

\* A setup logchannel set the log channel of one guild to c2, with
\* the welcome channel and the other guild's record set and kept.
C22_Witness ==
    /\ call.phase = "finished"
    /\ call.cmd = "setup logchannel"
    /\ call.inp.guild = "G1"
    /\ call.inp.channel = "c2"
    /\ \E k \in DOMAIN call.tr :
          call.tr[k].op = "db.update_server_setting" /\ call.tr[k].res = "ok"
    /\ db_settings["G1"] = [log_channel |-> "c2", welcome_channel |-> "c1"]
    /\ db_settings["G2"] = [log_channel |-> "c1", welcome_channel |-> "c2"]

ModlogCommands == {"kick", "ban", "unban", "warn", "timeout", "untimeout"}

Posts == Calls({"channel.send"})

\* The result embed was shown to the moderator.
Shown == \E k \in Answers : call.tr[k].res = "ok"

\* C23: kick, ban, unban, warn, timeout and untimeout post to no channel
\* but the guild's configured log channel, at most once, and only the result
\* embed already shown to the moderator, hence nothing when the command was
\* rejected, cancelled or failed; once the embed was shown and the store has
\* answered the settings read, the post is made if and only if log_channel
\* is set and the guild resolves it to a channel.
C23_Modlog ==
    (Handled /\ call.cmd \in ModlogCommands) =>
        /\ Cardinality(Posts) <= 1
        /\ \A k \in Posts :
              /\ call.tr[k].tgt = db_settings.log_channel
              /\ call.tr[k].tgt # NoChannel
              /\ \E j \in Answers :
                    j < k /\ call.tr[j].res = "ok" /\ call.tr[j].arg = call.tr[k].arg
        /\ ~Shown => Posts = {}
        /\ (Shown /\ \E k \in Calls({"db.get_server_settings"}) : call.tr[k].res = "ok")
              => (Posts # {} <=>
                    /\ db_settings.log_channel # NoChannel
                    /\ \A k \in Calls({"guild.get_channel"}) : call.tr[k].res # "None")

\* The embed of an accepted ban was posted to the second channel, the one
\* configured.
C23_Witness ==
    /\ call.phase = "finished"
    /\ call.cmd = "ban"
    /\ db_settings.log_channel = "c2"
    /\ \E k \in Posts :
          /\ call.tr[k].tgt = "c2"
          /\ call.tr[k].arg = "ban_ok"
          /\ call.tr[k].res = "ok"

\* The unwarn step just taken found at least one warning of its member.
UnwarnFound == UnwarnRead /\ Held(db_warnings, call'.inp.member) >= 1

\* The position of the store's answer to the read in that step's trace.
ReadAt == CHOOSE k \in DOMAIN call'.tr : call'.tr[k].op = "db.get_warnings"

\* Deletion by identifier is usable: the store has delete_warning and the
\* first record returned carries an identifier.
ByIdUsable == call'.inp.has_id /\ call'.inp.has_delete_warning

\* The precise deletion: delete_warning on the identifier of the first
\* record returned, which removes that record and no other.
UnwarnPrecise ==
    (UnwarnFound /\ ByIdUsable) =>
        LET tr == call'.tr
            first == WarningsOf(db_warnings, call'.inp.member)[1].id
        IN  /\ tr[ReadAt + 1].op = "db.delete_warning"
            /\ tr[ReadAt + 1].n = first
            /\ \A k \in DOMAIN tr : tr[k].op # "db.remove_warning"
            /\ db_warnings' = IF tr[ReadAt + 1].res = "ok"
                              THEN SelectSeq(db_warnings, LAMBDA w : w.id # first)
                              ELSE db_warnings
            /\ tr[ReadAt + 1].res = "ok" => Len(db_warnings') = Len(db_warnings) - 1

\* The coarse removal, when the precise one is not usable.
UnwarnFallsBack ==
    (UnwarnFound /\ ~ByIdUsable /\ call'.inp.has_remove_warning) =>
        /\ call'.tr[ReadAt + 1].op = "db.remove_warning"
        /\ \A k \in DOMAIN call'.tr : call'.tr[k].op # "db.delete_warning"

UnsupportedReported ==
    \E k \in DOMAIN call'.tr : call'.tr[k].arg = "unwarn_unsupported"

\* C24: for a member with at least one warning, unwarn deletes by
\* identifier whenever the first record returned carries an identifier and
\* the store has delete_warning, and then removes exactly that record; it
\* uses remove_warning otherwise if the store has it; it reports the
\* not-supported error exactly when neither is usable, which includes a
\* store that has delete_warning alone and returns records without
\* identifier.
C24_UnwarnDeletion ==
    [][/\ UnwarnPrecise
       /\ UnwarnFallsBack
       /\ UnwarnFound =>
             (UnsupportedReported <=> ~ByIdUsable /\ ~call'.inp.has_remove_warning)]_vars

\* The first of two warnings was deleted by its identifier, by a store that
\* has both deletions.
C24_Witness ==
    /\ call.phase = "finished"
    /\ call.cmd = "unwarn"
    /\ call.inp.has_id /\ call.inp.has_delete_warning /\ call.inp.has_remove_warning
    /\ \E k \in Calls({"db.delete_warning"}) :
          /\ call.tr[k].res = "ok"
          /\ call.tr[k].n = call.tr[k - 1].items[1]
          /\ Len(call.tr[k - 1].items) = 2
    /\ Held(db_warnings, call.inp.member) = 1
    /\ \E k \in DOMAIN call.tr : call.tr[k].arg = "unwarn_ok" /\ call.tr[k].res = "ok"

\* C24 as stated: the same, with the not-supported error reported only
\* when the store exposes neither deletion.
C24_AsStated ==
    [][/\ UnwarnPrecise
       /\ UnwarnFallsBack
       /\ (UnwarnFound /\ UnsupportedReported) =>
             ~call'.inp.has_delete_warning /\ ~call'.inp.has_remove_warning]_vars

\* The messages that say the command's action failed: for lack of
\* permission, or with an API error.
FailureTexts == {call.cmd \o "_forbidden", call.cmd \o "_http"}

\* C25 as stated: kick, unban, timeout, untimeout and purge say that the
\* action failed only when the platform action did not take effect; after
\* it has succeeded no later failure has them send that message.
C25_AsStated ==
    (Handled /\ call.cmd \in {"kick", "unban", "timeout", "untimeout", "purge"}) =>
        \A k \in Calls(Sends) :
            call.tr[k].arg \in FailureTexts =>
                \A j \in Calls({CommandOp(call.cmd)}) : call.tr[j].res # "ok"

TasksDone == call.phase = "tasks" /\ \A p \in Tasks : call.tasks[p].pc = "done"

\* C26 as stated: however the store calls of several unwarn invocations
\* interleave, once all have ended the number of warning records removed is
\* the number of success responses, and the number of "unwarn" Action Log
\* Entries.
C26_AsStated ==
    (TasksDone /\ call.cmd = "unwarn") =>
        LET removed == Len(call.before) - Len(db_warnings)
            successes == {k \in Calls(Sends) : call.tr[k].arg = "unwarn_ok"}
            entries == {k \in Calls({"db.log_action"}) : call.tr[k].arg = "unwarn"}
        IN  /\ removed = Cardinality(successes)
            /\ removed = Cardinality(entries)

\* C27 as stated: when the ban is issued on the platform the target is not
\* the guild owner and, as the guild has the roles at that moment, ranks
\* strictly below the moderator unless the moderator is the guild owner.
C27_AsStated ==
    (BanResolved /\ BanCalls # {}) =>
        ~is_guild_owner(call.inp) /\ ~hierarchy_blocked(call.inp)

\* The calls of task p with an operation among ops.
TaskCalls(p, ops) ==
    {k \in DOMAIN call.tasks[p].tr : call.tasks[p].tr[k].op \in ops}

WarnEntries ==
    {<<p, k>> \in Tasks \X (1..20) :
        /\ k \in TaskCalls(p, {"db.log_action"})
        /\ call.tasks[p].tr[k].arg = "warn"}

\* C28 as stated: once K concurrent warns of one member have ended, the
\* store holds K more warning records and K more "warn" Action Log Entries,
\* every invocation has reported a total between 1 and the final count,
\* some invocation has attempted the auto-action if one is configured and
\* the final count is at least the threshold, and none has attempted it on
\* a count below the threshold.
C28_AsStated ==
    (TasksDone /\ call.cmd = "warn") =>
        LET final == Held(db_warnings, "u2")
        IN  /\ Len(db_warnings) = Len(call.before) + Cardinality(Tasks)
            /\ Cardinality(WarnEntries) = Cardinality(Tasks)
            /\ \A p \in Tasks : call.tasks[p].n \in 1..final
            /\ (ConfiguredThreshold > 0 /\ ConfiguredAutoOp # "none"
                   /\ final >= ConfiguredThreshold)
                  => \E p \in Tasks : TaskCalls(p, AutoOps) # {}
            /\ \A p \in Tasks :
                  TaskCalls(p, AutoOps) # {} => call.tasks[p].n >= ConfiguredThreshold

====
